---- MODULE Spec2Model ----
(***************************************************************************)
(* A model of the antigravity-brain extension core: the frontmatter codec  *)
(* (src/src/brain/FrontmatterUtils.ts), the file-system scan               *)
(* (FileSystemReader.scan), the link extractor (MarkdownParser.parseLinks),*)
(* the graph builder (BrainManager.buildGraph), the version list and the   *)
(* diff renderings of the history panel (HistoryWebviewManager), the       *)
(* search (SearchProvider.search) and the group display names, the         *)
(* debounced search box (searchBrains), the script of the history webview  *)
(* and the life of the history panels.                                     *)
(*                                                                         *)
(* Representation of text: a string s is represented by s.split('\n'),     *)
(* the non-empty sequence of its lines (the empty string is <<"">>).       *)
(* split and join('\n') are inverse bijections between strings and such    *)
(* sequences, so every string operation of the source is modelled by its   *)
(* effect on the line sequence.  Indexes are 1-based here and 0-based in   *)
(* the source; 0 stands for the source's -1 ("not found").                 *)
(***************************************************************************)
EXTENDS Integers, Sequences, FiniteSets, TLC

VARIABLES
    taskMd,     \* content of <group>/task.md, the file updateFrontmatter rewrites
    fmPrev,     \* content of task.md before the last rewrite
    fmUpd,      \* the `updates` argument of the last rewrite
    fmBase,     \* content of task.md before the last pinBrain command
    fmStage,    \* "init" | "pinned" | "unpinned" | "updated": the last commands
    rootExists, \* whether the configured root directory exists
    fsFiles,    \* the files that exist under the root (a set of paths)
    fsMtime,    \* path -> modification time (stat.mtime.getTime())
    fsText,     \* path -> content: a link list for documents, JSON text for sidecars
    discovered, \* the set of files glob handed to the last scan
    graph,      \* the last result of BrainManager.buildGraph
    built,      \* whether buildGraph has run
    versions,   \* HistoryWebviewManager._versions
    shown,      \* the node last passed to _loadVersions, <<>> before the first
    loadedFs,   \* the files that existed when _loadVersions last ran
    srExists,   \* whether the root directory SearchProvider was given exists
    srRoot,     \* the entries of that directory, in readdirSync order
    srQuery,    \* the query of the search call
    srMax,      \* its maxResults
    srOut,      \* what the call returned, and the file-system calls it made
    srDone,     \* whether search has returned
    treeNames,  \* the display names getChildren gave the group folders
    dfFrom,     \* content of the file fromId names
    dfTo,       \* content of the file toId names
    dfReadable, \* which of the two files can be read
    dfReq,      \* the last requestContent message, <<>> before the first
    posted,     \* the messages the panel posted while handling it
    dfPc,       \* "idle" | "render": where _handleContentRequest stands
    uiValue,    \* quickPick.value of the search box
    uiTimers,   \* the live timers of the event loop: id, captured value, age
    debounceTimer, \* the handle the searchBrains command keeps, 0 when undefined
    uiQuiet,    \* milliseconds since the value last changed, capped
    uiItems,    \* quickPick.items
    uiAwait,    \* the continuation of `await searchProvider.search(value)`
    uiScans,    \* the values scanned since the value last changed
    wvVersions, \* the webview script's `versions`
    fromSelect, \* fromSelect.value
    toSelect,   \* toSelect.value
    wvListeners, \* the 'change' listeners of the two selects
    wvSent,     \* the messages the webview posted in its last event
    wvEvent,    \* the last event the webview script handled
    wvInits,    \* how many initVersions messages it has received
    currentMode, \* the webview script's currentMode
    currentLayout, \* the webview script's currentLayout
    currentPanel, \* HistoryWebviewManager.currentPanel, 0 when undefined
    panels      \* every panel created so far, by creation number

fmVars == <<taskMd, fmPrev, fmUpd, fmBase, fmStage>>

fsVars == <<rootExists, fsFiles, fsMtime, fsText, discovered, graph, built, versions, shown, loadedFs>>

srVars == <<srExists, srRoot, srQuery, srMax, srOut, srDone, treeNames>>

dfVars == <<dfFrom, dfTo, dfReadable, dfReq, posted, dfPc>>

uiVars == <<uiValue, uiTimers, debounceTimer, uiQuiet, uiItems, uiAwait, uiScans>>

wvVars == <<wvVersions, fromSelect, toSelect, wvListeners, wvSent, wvEvent, wvInits,
           currentMode, currentLayout>>

pnVars == <<currentPanel, panels>>

uxVars == <<uiVars, wvVars, pnVars>>

vars == <<taskMd, fmPrev, fmUpd, fmBase, fmStage,
          rootExists, fsFiles, fsMtime, fsText, discovered, graph, built, versions, shown, loadedFs,
          srExists, srRoot, srQuery, srMax, srOut, srDone, treeNames,
          dfFrom, dfTo, dfReadable, dfReq, posted, dfPc,
          uiValue, uiTimers, debounceTimer, uiQuiet, uiItems, uiAwait, uiScans,
          wvVersions, fromSelect, toSelect, wvListeners, wvSent, wvEvent, wvInits,
          currentMode, currentLayout,
          currentPanel, panels>>

(***************************************************************************)
(* Bounds                                                                  *)
(***************************************************************************)
MaxLines == 3          \* task.md has at most this many lines initially

(***************************************************************************)
(* Generic helpers                                                         *)
(***************************************************************************)
\* JS object as a finite function from keys to values.
EmptyObj == [k \in {} |-> TRUE]

Put(obj, key, val) ==
    [k \in (DOMAIN obj) \cup {key} |-> IF k = key THEN val ELSE obj[k]]

Delete(obj, key) == [k \in (DOMAIN obj) \ {key} |-> obj[k]]

\* { ...a, ...b }
Spread(a, b) ==
    [k \in (DOMAIN a) \cup (DOMAIN b) |-> IF k \in DOMAIN b THEN b[k] ELSE a[k]]

\* Array.prototype.slice(from) with a 1-based `from`.
SliceFrom(s, from) == IF from > Len(s) THEN <<>> ELSE SubSeq(s, from, Len(s))

\* Array.prototype.join('\n') followed by the line representation:
\* [].join('\n') is the empty string, whose only line is "".
JoinLines(ls) == IF ls = <<>> THEN <<"">> ELSE ls

\* String concatenation a + b on line sequences: the last line of a and the
\* first line of b become one line.
StrConcat(a, b) ==
    SubSeq(a, 1, Len(a) - 1) \o <<a[Len(a)] \o b[1]>> \o Tail(b)

\* The one-character string "\n".
Newline == <<"", "">>

(***************************************************************************)
(* Frontmatter codec: src/src/brain/FrontmatterUtils.ts                    *)
(***************************************************************************)
\* The lines task.md is built from initially.
FmLines == {"", "---", "--- ", "pinned: true", "pinned: false", "tags: [a]", "x"}

\* The tag lists the commands pass as updates.tags.
TagLists == {<<>>, <<"a">>, <<"a", "b">>}

\* String.prototype.trim on the lines of the model.
Trim(line) == IF line = "--- " THEN "---" ELSE line

IsDelimiter(line) == Trim(line) = "---"

\* line.match(/^pinned:\s*(true|false)\s*$/i): the captured group lower-cased,
\* "" when the line does not match.
PinnedMatch(line) ==
    CASE line = "pinned: true" -> "true"
      [] line = "pinned: false" -> "false"
      [] OTHER -> ""

\* line.match(/^tags:\s*\[([^\]]*)\]\s*$/): whether the line matches.
TagsInlineMatches(line) ==
    line \in {"tags: []", "tags: [a]", "tags: [b]", "tags: [a, b]", "tags: [b, a]"}

\* tagStr.split(',').map(trim, strip quotes).filter(non-empty) of a matching line.
TagsOfLine(line) ==
    CASE line = "tags: []" -> <<>>
      [] line = "tags: [a]" -> <<"a">>
      [] line = "tags: [b]" -> <<"b">>
      [] line = "tags: [a, b]" -> <<"a", "b">>
      [] line = "tags: [b, a]" -> <<"b", "a">>

\* The loop `for (let i = 1; i < lines.length; i++)` that finds the closing
\* delimiter: its 1-based index, 0 when there is none.
EndIndex(lines) ==
    LET closing == {i \in 2..Len(lines) : IsDelimiter(lines[i])}
    IN  IF closing = {} THEN 0
        ELSE CHOOSE i \in closing : \A j \in closing : i <= j

RECURSIVE ParseLines(_, _)
ParseLines(fmLines, result) ==
    IF fmLines = <<>> THEN result
    ELSE LET line == Head(fmLines)
             next == IF PinnedMatch(line) # ""
                        THEN Put(result, "pinned", PinnedMatch(line) = "true")
                     ELSE IF TagsInlineMatches(line)
                        THEN Put(result, "tags", TagsOfLine(line))
                     ELSE result
         IN  ParseLines(Tail(fmLines), next)

parseFrontmatterFromContent(content) ==
    LET lines == content
    IN  IF ~IsDelimiter(lines[1]) THEN EmptyObj
        ELSE IF EndIndex(lines) = 0 THEN EmptyObj
        ELSE ParseLines(SubSeq(lines, 2, EndIndex(lines) - 1), EmptyObj)

\* merged.tags.join(', ')
RECURSIVE JoinTags(_)
JoinTags(tags) ==
    IF tags = <<>> THEN ""
    ELSE IF Len(tags) = 1 THEN tags[1]
    ELSE tags[1] \o ", " \o JoinTags(Tail(tags))

TagsLine(tags) == "tags: [" \o JoinTags(tags) \o "]"

\* body.replace(/^\n+/, '')
RECURSIVE TrimLeadingNewlines(_)
TrimLeadingNewlines(body) ==
    IF Len(body) >= 2 /\ body[1] = "" THEN TrimLeadingNewlines(Tail(body))
    ELSE body

StartsWithNewline(body) == Len(body) >= 2 /\ body[1] = ""

\* Mutant: the merged record is used without the clean-up steps.
MergedMetaNoCleanup(content, updates) ==
    LET lines == content
        hasFrontmatter == IsDelimiter(lines[1])
        existingMeta == IF hasFrontmatter /\ EndIndex(lines) # 0
                           THEN parseFrontmatterFromContent(content)
                           ELSE EmptyObj
    IN  Spread(existingMeta, updates)

\* The merged record after the two clean-up steps.
MergedMeta(content, updates) ==
    LET lines == content
        hasFrontmatter == IsDelimiter(lines[1])
        existingMeta == IF hasFrontmatter /\ EndIndex(lines) # 0
                           THEN parseFrontmatterFromContent(content)
                           ELSE EmptyObj
        merged0 == Spread(existingMeta, updates)
        merged1 == IF "pinned" \in DOMAIN merged0 /\ merged0["pinned"] = FALSE
                      THEN Delete(merged0, "pinned") ELSE merged0
    IN  IF "tags" \in DOMAIN merged1 /\ Len(merged1["tags"]) = 0
           THEN Delete(merged1, "tags") ELSE merged1

\* `body`: the text after the closing delimiter line, or the whole content.
BodyOf(content) ==
    LET lines == content
        hasFrontmatter == IsDelimiter(lines[1])
        bodyStartIndex == IF hasFrontmatter /\ EndIndex(lines) # 0
                             THEN EndIndex(lines) + 1 ELSE 1
    IN  IF hasFrontmatter THEN JoinLines(SliceFrom(lines, bodyStartIndex))
        ELSE content

\* The serialized block fmLines.join('\n').
FmBlock(merged) ==
    <<"---">>
    \o (IF "pinned" \in DOMAIN merged /\ merged["pinned"] THEN <<"pinned: true">> ELSE <<>>)
    \o (IF "tags" \in DOMAIN merged /\ Len(merged["tags"]) > 0
           THEN <<TagsLine(merged["tags"])>> ELSE <<>>)
    \o <<"---">>

\* bodyTrimmed = body.startsWith('\n') ? body : '\n' + body
BodyTrimmed(body) ==
    IF StartsWithNewline(body) THEN body ELSE StrConcat(Newline, body)

updateFrontmatterInContent(content, updates) ==
    LET merged == MergedMeta(content, updates)
        body == BodyOf(content)
        hasMeaningfulMeta ==
            \/ "pinned" \in DOMAIN merged
            \/ ("tags" \in DOMAIN merged /\ Len(merged["tags"]) > 0)
    IN  IF ~hasMeaningfulMeta THEN TrimLeadingNewlines(body)
        ELSE StrConcat(FmBlock(merged), BodyTrimmed(body))

(***************************************************************************)
(* The commands that rewrite task.md through updateFrontmatter.            *)
(***************************************************************************)
Contents == UNION {[1..n -> FmLines] : n \in 1..MaxLines}

\* Partial<BrainFrontmatter>: every combination of the two optional keys.
UpdatesSet ==
    {EmptyObj}
    \cup {Put(EmptyObj, "pinned", p) : p \in BOOLEAN}
    \cup {Put(EmptyObj, "tags", t) : t \in TagLists}
    \cup {Put(Put(EmptyObj, "pinned", p), "tags", t) : p \in BOOLEAN, t \in TagLists}

\* Documents whose block follows a blank first line.
LongContents == {<<"", "---", line, "---">> : line \in {"pinned: true", "tags: [a]", "x"}}

FmInit ==
    /\ taskMd \in Contents \cup LongContents
    /\ fmPrev = taskMd
    /\ fmUpd = EmptyObj
    /\ fmBase = taskMd
    /\ fmStage = "init"

\* updateFrontmatter(taskMdPath, updates): read, rewrite, write back.
Rewrite(updates) ==
    /\ taskMd' = updateFrontmatterInContent(taskMd, updates)
    /\ fmPrev' = taskMd
    /\ fmUpd' = updates

\* antigravity-brain.pinBrain
PinBrain ==
    /\ Rewrite(Put(EmptyObj, "pinned", TRUE))
    /\ fmBase' = taskMd
    /\ fmStage' = "pinned"
    /\ UNCHANGED fsVars
    /\ UNCHANGED <<srVars, dfVars, uxVars>>

\* antigravity-brain.unpinBrain
UnpinBrain ==
    /\ Rewrite(Put(EmptyObj, "pinned", FALSE))
    /\ fmBase' = IF fmStage = "pinned" THEN fmBase ELSE taskMd
    /\ fmStage' = IF fmStage = "pinned" THEN "unpinned" ELSE "updated"
    /\ UNCHANGED fsVars
    /\ UNCHANGED <<srVars, dfVars, uxVars>>

\* antigravity-brain.manageTags, and any other caller of the exported function.
UpdateFrontmatter ==
    \E updates \in UpdatesSet :
        /\ Rewrite(updates)
        /\ fmBase' = taskMd
        /\ fmStage' = "updated"
        /\ UNCHANGED fsVars
        /\ UNCHANGED <<srVars, dfVars, uxVars>>

FmNext == PinBrain \/ UnpinBrain \/ UpdateFrontmatter

(***************************************************************************)
(* Paths.  A path is the sequence of the pieces of its text below the      *)
(* root: directory and base names, "/" and the dotted suffixes, so that    *)
(* <<"g1","/","task",".md",".resolved",".0">> is <root>/g1/task.md.resolved.0 *)
(***************************************************************************)
\* The numeric suffixes: NumSuffix[n + 1] is "." followed by the digits of n.
NumSuffix == <<".0", ".1", ".2", ".3", ".4">>

Canonical(group, name) == <<group, "/", name, ".md">>

Unnumbered(doc) == doc \o <<".resolved">>

Snapshot(doc, n) == doc \o <<".resolved", NumSuffix[n + 1]>>

Sidecar(doc) == doc \o <<".metadata.json">>

\* filePath.includes('.resolved')
IncludesResolved(p) == \E i \in 1..Len(p) : p[i] = ".resolved"

\* Mutant: sidecar files are not recognised.
EndsWithMetadataJsonNever(p) == FALSE

\* filePath.endsWith('.metadata.json')
EndsWithMetadataJson(p) == Len(p) >= 1 /\ p[Len(p)] = ".metadata.json"

\* filePath.split('.resolved')[0]: the text before the first marker.
BeforeResolved(p) ==
    LET first == CHOOSE i \in 1..Len(p) :
                    p[i] = ".resolved" /\ \A j \in 1..(i - 1) : p[j] # ".resolved"
    IN  SubSeq(p, 1, first - 1)

\* Mutant: every marker file counts as numbered.
IsNumberedAlways(p) == TRUE

\* /\.resolved\.\d+$/.test(filePath)
IsNumbered(p) ==
    /\ Len(p) >= 2
    /\ p[Len(p) - 1] = ".resolved"
    /\ \E n \in 1..Len(NumSuffix) : p[Len(p)] = NumSuffix[n]

\* Index of the last "/" of a path, 0 when it has none.
LastSlash(p) ==
    LET slashes == {i \in 1..Len(p) : p[i] = "/"}
    IN  IF slashes = {} THEN 0
        ELSE CHOOSE i \in slashes : \A j \in slashes : j <= i

\* path.basename
Basename(p) == SubSeq(p, LastSlash(p) + 1, Len(p))

\* path.dirname (the root itself is <<>>)
Dirname(p) == SubSeq(p, 1, LastSlash(p) - 1)

\* path.resolve(dir, rel) for a relative `rel`: leading "../" steps climb.
RECURSIVE Resolve(_, _)
Resolve(dir, rel) ==
    IF Len(rel) >= 2 /\ rel[1] = ".." /\ rel[2] = "/"
        THEN Resolve(Dirname(dir), SubSeq(rel, 3, Len(rel)))
    ELSE IF dir = <<>> THEN rel
    ELSE dir \o <<"/">> \o rel

\* The pattern "**/*.md*": the base name holds ".md".
GlobMatches(p) == \E i \in 1..Len(Basename(p)) : Basename(p)[i] = ".md"

(***************************************************************************)
(* FileSystemReader.scan: src/src/brain/BrainTreeProvider.ts               *)
(***************************************************************************)
\* JSON.parse of the sidecar texts of the model; "throws" for malformed text.
JsonParse(text) ==
    CASE text = "{\"fileCount\":1}" -> [fileCount |-> 1]
      [] text = "{\"fileCount\":2}" -> [fileCount |-> 2]
      [] OTHER -> "throws"

JsonIsWellFormed(text) == text \in {"{\"fileCount\":1}", "{\"fileCount\":2}"}

\* Mutant: the has() test is dropped, every file makes a node.
MapHasNever(nodeMap, key) == FALSE

\* nodeMap.has(key) on the insertion-ordered Map, kept as the sequence of
\* its values (every value is stored under its own id).
MapHas(nodeMap, key) == \E i \in 1..Len(nodeMap) : nodeMap[i]["id"] = key

MapIndex(nodeMap, key) == CHOOSE i \in 1..Len(nodeMap) : nodeMap[i]["id"] = key

NewNode(originalPath) ==
    [k \in {"id", "path", "name", "type", "resolvedVersions"} |->
        CASE k = "id" -> originalPath
          [] k = "path" -> originalPath
          [] k = "name" -> Basename(originalPath)
          [] k = "type" -> "file"
          [] k = "resolvedVersions" -> <<>>]

\* One iteration of files.forEach(filePath => ...), on the files that exist
\* (`existing`) with their texts (`text`).
ScanStep(nodeMap, filePath, existing, text) ==
    LET isResolved == IncludesResolved(filePath)
        isMetadata == EndsWithMetadataJson(filePath)
        originalPath == IF isResolved THEN BeforeResolved(filePath) ELSE filePath
        map1 == IF MapHas(nodeMap, originalPath) THEN nodeMap
                ELSE Append(nodeMap, NewNode(originalPath))
        i == MapIndex(map1, originalPath)
        node == map1[i]
        metadataPath == originalPath \o <<".metadata.json">>
    IN  IF isMetadata THEN nodeMap
        ELSE IF isResolved THEN
            IF IsNumbered(filePath)
                THEN [map1 EXCEPT ![i] =
                        Put(node, "resolvedVersions",
                            Append(node["resolvedVersions"], filePath))]
                ELSE map1
        ELSE IF metadataPath \in existing /\ JsonIsWellFormed(text[metadataPath])
                THEN [map1 EXCEPT ![i] =
                        Put(node, "metadata", JsonParse(text[metadataPath]))]
                ELSE map1

RECURSIVE ScanFiles(_, _, _, _)
ScanFiles(nodeMap, files, existing, text) ==
    IF files = <<>> THEN nodeMap
    ELSE ScanFiles(ScanStep(nodeMap, Head(files), existing, text),
                   Tail(files), existing, text)

\* Mutant: nodes whose primary file is missing are filtered out.
scanOnlyPrimary(exists, files, existing, text) ==
    LET all == IF ~exists THEN <<>> ELSE ScanFiles(<<>>, files, existing, text)
        IsPrimary(n) == n["path"] \in existing
    IN  SelectSeq(all, IsPrimary)

\* scan(): the node list for a root that exists (or not) and the `files`
\* glob found there.
scan(exists, files, existing, text) ==
    IF ~exists THEN <<>> ELSE ScanFiles(<<>>, files, existing, text)

(***************************************************************************)
(* MarkdownParser.parseLinks: src/src/brain/MarkdownParser.ts              *)
(* A document's text is the sequence of the link spans it holds, in text   *)
(* order: [syntax |-> "wiki", text |-> T] is [[T]] and                     *)
(* [syntax |-> "md", text |-> D] is [Title](D); text outside spans matches *)
(* neither expression.                                                     *)
(***************************************************************************)
\* String.prototype.trim on a token sequence: blanks at both ends are dropped.
RECURSIVE TrimTokens(_)
TrimTokens(t) ==
    IF t = <<>> THEN t
    ELSE IF Head(t) = " " THEN TrimTokens(Tail(t))
    ELSE IF t[Len(t)] = " " THEN TrimTokens(SubSeq(t, 1, Len(t) - 1))
    ELSE t

\* Mutant: the text after "|" is kept as part of the target name.
WikiTargetWithAlias(t) == TrimTokens(t)

\* match[1].split('|')[0].trim()
WikiTarget(t) ==
    LET bars == {i \in 1..Len(t) : t[i] = "|"}
    IN  IF bars = {} THEN TrimTokens(t)
        ELSE TrimTokens(SubSeq(t, 1, (CHOOSE i \in bars : \A j \in bars : i <= j) - 1))

\* Mutant: the first node of a name keeps it.
NameMapGetFirst(nodes, name) ==
    LET hits == {i \in 1..Len(nodes) : nodes[i]["name"] = name}
    IN  IF hits = {} THEN <<>>
        ELSE nodes[CHOOSE i \in hits : \A j \in hits : i <= j]["id"]

\* new Map(nodes.map(n => [n.name, n.id])).get(name): the id of the last node
\* of that name, <<>> (undefined) when there is none.
NameMapGet(nodes, name) ==
    LET hits == {i \in 1..Len(nodes) : nodes[i]["name"] = name}
    IN  IF hits = {} THEN <<>>
        ELSE nodes[CHOOSE i \in hits : \A j \in hits : j <= i]["id"]

\* Mutant: an unknown name is turned into an id instead of being dropped.
WikiResolveDangling(nodes, targetName) ==
    IF NameMapGet(nodes, targetName \o <<".md">>) # <<>>
        THEN NameMapGet(nodes, targetName \o <<".md">>)
        ELSE <<"g1", "/">> \o targetName \o <<".md">>

\* nodeMap.get(targetName + '.md') || nodeMap.get(targetName)
WikiResolve(nodes, targetName) ==
    IF NameMapGet(nodes, targetName \o <<".md">>) # <<>>
        THEN NameMapGet(nodes, targetName \o <<".md">>)
        ELSE NameMapGet(nodes, targetName)

\* linkPath.startsWith('http')
StartsWithHttp(linkPath) == Len(linkPath) >= 1 /\ linkPath[1] = "http://x"

\* nodes.find(n => n.path === absolutePath): its index, 0 when undefined.
FindByPath(nodes, absolutePath) ==
    LET hits == {i \in 1..Len(nodes) : nodes[i]["path"] = absolutePath}
    IN  IF hits = {} THEN 0 ELSE CHOOSE i \in hits : \A j \in hits : i <= j

Link(source, target, type) == [source |-> source, target |-> target, type |-> type]

\* The while loop over wikiRegex.exec(content).
RECURSIVE WikiLinks(_, _, _)
WikiLinks(nodes, node, content) ==
    IF content = <<>> THEN <<>>
    ELSE LET span == Head(content)
             targetId == WikiResolve(nodes, WikiTarget(span.text))
             here == IF span.syntax = "wiki" /\ targetId # <<>>
                        THEN <<Link(node["id"], targetId, "wikilink")>>
                        ELSE <<>>
         IN  here \o WikiLinks(nodes, node, Tail(content))

\* The while loop over mdRegex.exec(content).
RECURSIVE MdLinks(_, _, _)
MdLinks(nodes, node, content) ==
    IF content = <<>> THEN <<>>
    ELSE LET span == Head(content)
             absolutePath == Resolve(Dirname(node["path"]), span.text)
             found == FindByPath(nodes, absolutePath)
             here == IF span.syntax = "md" /\ ~StartsWithHttp(span.text) /\ found # 0
                        THEN <<Link(node["id"], nodes[found]["id"], "mdlink")>>
                        ELSE <<>>
         IN  here \o MdLinks(nodes, node, Tail(content))

\* readFile(filePath): '' when the read fails.
ReadFile(filePath, existing, text) ==
    IF filePath \in existing THEN text[filePath] ELSE <<>>

\* The matches wikiRegex and mdRegex find in the text of a file: a document's
\* text is given as its link spans, and the JSON text of a sidecar holds none.
LinkSpansOf(filePath, content) ==
    IF Len(filePath) >= 1 /\ filePath[Len(filePath)] = ".metadata.json"
        THEN <<>>
        ELSE content

\* Mutant: the Markdown pass runs before the wiki pass.
RECURSIVE ParseFromMdFirst(_, _, _, _)
ParseFromMdFirst(nodes, i, existing, text) ==
    IF i > Len(nodes) THEN <<>>
    ELSE LET node == nodes[i]
             content == LinkSpansOf(node["path"],
                                   ReadFile(node["path"], existing, text))
         IN  MdLinks(nodes, node, content) \o WikiLinks(nodes, node, content)
             \o ParseFromMdFirst(nodes, i + 1, existing, text)

\* The body of `for (const node of nodes)` from node number i on.
RECURSIVE ParseFrom(_, _, _, _)
ParseFrom(nodes, i, existing, text) ==
    IF i > Len(nodes) THEN <<>>
    ELSE LET node == nodes[i]
             content == LinkSpansOf(node["path"],
                                   ReadFile(node["path"], existing, text))
         IN  WikiLinks(nodes, node, content) \o MdLinks(nodes, node, content)
             \o ParseFrom(nodes, i + 1, existing, text)

\* Mutant: the loop ends at the first node whose file cannot be read
\* (`break` in place of `continue`).
RECURSIVE ParseUntilUnreadable(_, _, _, _)
ParseUntilUnreadable(nodes, i, existing, text) ==
    IF i > Len(nodes) \/ nodes[i]["path"] \notin existing THEN <<>>
    ELSE LET node == nodes[i]
             content == LinkSpansOf(node["path"],
                                   ReadFile(node["path"], existing, text))
         IN  WikiLinks(nodes, node, content) \o MdLinks(nodes, node, content)
             \o ParseUntilUnreadable(nodes, i + 1, existing, text)

parseLinksUntilUnreadable(nodes, existing, text) ==
    ParseUntilUnreadable(nodes, 1, existing, text)

parseLinks(nodes, existing, text) == ParseFrom(nodes, 1, existing, text)

\* BrainManager.buildGraph
buildGraph(exists, files, existing, text) ==
    LET nodes == scan(exists, files, existing, text)
    IN  [nodes |-> nodes, links |-> parseLinks(nodes, existing, text)]

(***************************************************************************)
(* HistoryWebviewManager._loadVersions:                                    *)
(* src/src/history/HistoryWebviewManager.ts                                *)
(***************************************************************************)
FileVersion(id, label, timestamp) == [id |-> id, label |-> label, timestamp |-> timestamp]

\* `Version ${i + 1} -- ${dateStr}` and `Current -- ${dateStr}`: the date text
\* is a function of the timestamp alone and is kept as the timestamp.
VersionLabel(n, timestamp) == [text |-> "Version", n |-> n, date |-> timestamp]

CurrentLabel(timestamp) == [text |-> "Current", n |-> 0, date |-> timestamp]

NoLabel == [text |-> "", n |-> 0, date |-> 0]

\* node.resolvedVersions.forEach: the snapshots that still exist, with their mtime.
RECURSIVE CollectVersions(_, _, _)
CollectVersions(paths, existing, mtime) ==
    IF paths = <<>> THEN <<>>
    ELSE (IF Head(paths) \in existing
             THEN <<FileVersion(Head(paths), NoLabel, mtime[Head(paths)])>>
             ELSE <<>>)
         \o CollectVersions(Tail(paths), existing, mtime)

\* Insert v after every element whose timestamp is not greater (a stable order).
InsertByTimestamp(sorted, v) ==
    LET keep == {i \in 1..Len(sorted) : sorted[i].timestamp <= v.timestamp}
        k == IF keep = {} THEN 0 ELSE CHOOSE i \in keep : \A j \in keep : j <= i
    IN  SubSeq(sorted, 1, k) \o <<v>> \o SubSeq(sorted, k + 1, Len(sorted))

\* Mutant: the history is left in the order of node.resolvedVersions.
SortNone(vs) == vs

\* this._versions.sort((a, b) => a.timestamp - b.timestamp): Array.prototype.sort
\* is stable.
RECURSIVE SortByTimestamp(_)
SortByTimestamp(vs) ==
    IF vs = <<>> THEN <<>>
    ELSE InsertByTimestamp(SortByTimestamp(SubSeq(vs, 1, Len(vs) - 1)), vs[Len(vs)])

LabelVersions(vs) ==
    [i \in 1..Len(vs) |->
        FileVersion(vs[i].id, VersionLabel(i, vs[i].timestamp), vs[i].timestamp)]

\* The main file appended as "Current" when it exists.
AppendCurrent(vs, node, existing, mtime) ==
    IF node["path"] \in existing
        THEN Append(vs, FileVersion(node["path"], CurrentLabel(mtime[node["path"]]),
                                    mtime[node["path"]]))
        ELSE vs

loadVersions(node, existing, mtime) ==
    AppendCurrent(
        LabelVersions(SortByTimestamp(
            CollectVersions(node["resolvedVersions"], existing, mtime))),
        node, existing, mtime)

(***************************************************************************)
(* The files under the root.  They follow the layout the extension reads:  *)
(* <group>/<name>.md, <name>.md.resolved, <name>.md.resolved.<N>,          *)
(* <name>.md.metadata.json, and files the glob pattern does not match.     *)
(***************************************************************************)
MaxSnapshots == 2      \* numbered snapshots .resolved.0 .. .resolved.(MaxSnapshots-1)

MaxMtime == 2          \* modification times range over 1..MaxMtime

MaxLinks == 2          \* link spans in all documents together

Doc1 == Canonical("g1", "task")

Doc2 == Canonical("g2", "task")

Readme == <<"g1", "/", "readme", ".txt">>

\* A file the glob pattern matches whose canonical path has no ".md": the
\* node scan makes of it is named "notes".
NotesCopy == <<"g1", "/", "notes", ".resolved", ".md">>

Snapshots1 == {Snapshot(Doc1, n) : n \in 0..(MaxSnapshots - 1)}

ScanUniverse == {Doc1, Unnumbered(Doc1), Sidecar(Doc1), Readme} \cup Snapshots1

LinkUniverse == {Doc1, Doc2, Snapshot(Doc1, 0), NotesCopy}

HistoryUniverse == {Doc1} \cup Snapshots1

Universe == ScanUniverse \cup LinkUniverse \cup HistoryUniverse

SidecarTexts == {"{\"fileCount\":1}", "{\"fileCount\":2}", "{oops"}

WikiSpan(t) == [syntax |-> "wiki", text |-> t]

MdSpan(d) == [syntax |-> "md", text |-> d]

LinkSpans ==
    {WikiSpan(<<"task">>), WikiSpan(<<"task", " ", "|", "alias">>), WikiSpan(<<"ghost">>),
     WikiSpan(<<"notes">>),
     MdSpan(<<"..", "/", "g2", "/", "task", ".md">>), MdSpan(<<"ghost", ".md">>),
     MdSpan(<<"http://x">>)}

SpanSeqs(n) == UNION {[1..k -> LinkSpans] : k \in 0..n}

\* The orders in which glob may list a set of files.
RECURSIVE Orderings(_)
Orderings(S) ==
    IF S = {} THEN {<<>>}
    ELSE UNION {{<<p>> \o rest : rest \in Orderings(S \ {p})} : p \in S}

DefaultText(p) == IF EndsWithMetadataJson(p) THEN "" ELSE <<>>

FsIdle ==
    /\ discovered = {}
    /\ graph = [nodes |-> <<>>, links |-> <<>>]
    /\ built = FALSE
    /\ versions = <<>>
    /\ shown = <<>>
    /\ loadedFs = {}

\* A document with numbered snapshots, an un-numbered snapshot and a sidecar.
InitScanFiles ==
    /\ rootExists = TRUE
    /\ fsFiles \in SUBSET ScanUniverse
    /\ \E side \in SidecarTexts :
          fsText = [p \in Universe |->
                      IF p = Sidecar(Doc1) /\ p \in fsFiles THEN side ELSE DefaultText(p)]
    /\ fsMtime = [p \in Universe |-> 1]

\* Documents that link to each other.
InitLinkFiles ==
    /\ rootExists = TRUE
    /\ fsFiles \in SUBSET LinkUniverse
    /\ \E c1 \in SpanSeqs(MaxLinks) : \E c2 \in SpanSeqs(MaxLinks - Len(c1)) :
          fsText = [p \in Universe |->
                      IF p = Doc1 /\ p \in fsFiles THEN c1
                      ELSE IF p = Doc2 /\ p \in fsFiles THEN c2
                      ELSE DefaultText(p)]
    /\ fsMtime = [p \in Universe |-> 1]

\* One document and its snapshots, of any ages.
InitHistoryFiles ==
    /\ rootExists = TRUE
    /\ fsFiles \in SUBSET HistoryUniverse
    /\ fsText = [p \in Universe |-> DefaultText(p)]
    /\ \E m \in [HistoryUniverse -> 1..MaxMtime] :
          fsMtime = [p \in Universe |-> IF p \in fsFiles THEN m[p] ELSE 1]

\* The configured root is missing.
InitNoRoot ==
    /\ rootExists = FALSE
    /\ fsFiles = {}
    /\ fsText = [p \in Universe |-> DefaultText(p)]
    /\ fsMtime = [p \in Universe |-> 1]

(***************************************************************************)
(* SearchProvider: src/unnamed/part_001.  Here a string is the sequence of *)
(* its characters and a file content the sequence of its lines             *)
(* (content.split('\n')), each a string.  A directory is the sequence of   *)
(* its entries in readdirSync order.                                       *)
(***************************************************************************)
PreviewLength == 120

Dot == <<".">>

DotMd == <<".", "m", "d">>

DotResolved == <<".", "r", "e", "s", "o", "l", "v", "e", "d">>

DotMetadataJson == <<".", "m", "e", "t", "a", "d", "a", "t", "a", ".", "j", "s", "o", "n">>

TaskMdName == <<"t", "a", "s", "k", ".", "m", "d">>

Dashes == <<"-", "-", "-">>

HashSpace == <<"#", " ">>

ToLowerChar(c) ==
    CASE c = "A" -> "a"
      [] c = "B" -> "b"
      [] OTHER -> c

\* String.prototype.toLowerCase
ToLowerCase(str) == [i \in 1..Len(str) |-> ToLowerChar(str[i])]

\* String.prototype.includes
Includes(str, sub) ==
    \E k \in 0..(Len(str) - Len(sub)) : SubSeq(str, k + 1, k + Len(sub)) = sub

\* String.prototype.startsWith
StartsWith(str, prefix) ==
    Len(str) >= Len(prefix) /\ SubSeq(str, 1, Len(prefix)) = prefix

\* String.prototype.endsWith
EndsWith(str, suffix) ==
    Len(str) >= Len(suffix)
        /\ SubSeq(str, Len(str) - Len(suffix) + 1, Len(str)) = suffix

\* String.prototype.substring(from, to) with 0-based from and to.
Substring(str, from, to) ==
    SubSeq(str, from + 1, IF to < Len(str) THEN to ELSE Len(str))

FileEntry(name, lines, readable) ==
    [kind |-> "file", name |-> name, lines |-> lines, readable |-> readable]

DirEntry(name, entries) == [kind |-> "dir", name |-> name, entries |-> entries]

\* One SearchResult.
SearchResult(filePath, brainName, fileName, matchLine, lineNumber, matchType) ==
    [filePath |-> filePath, brainName |-> brainName, fileName |-> fileName,
     matchLine |-> matchLine, lineNumber |-> lineNumber, matchType |-> matchType]

\* The loop of getBrainDisplayName over the lines of task.md, from line i on.
RECURSIVE HeadingFrom(_, _, _, _)
HeadingFrom(lines, i, inFrontmatter, fallback) ==
    IF i > Len(lines) THEN fallback
    ELSE LET line == TrimTokens(lines[i])
         IN  IF i = 1 /\ line = Dashes
                 THEN HeadingFrom(lines, i + 1, TRUE, fallback)
             ELSE IF inFrontmatter
                 THEN HeadingFrom(lines, i + 1, line # Dashes, fallback)
             ELSE IF StartsWith(line, HashSpace)
                 THEN TrimTokens(Substring(line, 2, Len(line)))
             ELSE HeadingFrom(lines, i + 1, FALSE, fallback)

\* getBrainDisplayName(brainPath, fallback), and the same loop of
\* BrainTreeProvider.getChildren: `entries` are the entries of brainPath.
\* Reading a task.md that is a directory or unreadable throws: the fallback.
getBrainDisplayName(entries, fallback) ==
    LET hits == {i \in 1..Len(entries) : entries[i].name = TaskMdName}
    IN  IF hits = {} THEN fallback
        ELSE LET e == entries[CHOOSE i \in hits : TRUE]
             IN  IF e.kind = "file" /\ e.readable
                     THEN HeadingFrom(e.lines, 1, FALSE, fallback)
                     ELSE fallback

\* findMdFiles(dirPath): the files found, each with its path and its entry.
RECURSIVE findMdFiles(_, _)
findMdFiles(dirPath, entries) ==
    IF entries = <<>> THEN <<>>
    ELSE LET entry == Head(entries)
             fullPath == Append(dirPath, entry.name)
             here == IF entry.kind = "dir" /\ ~StartsWith(entry.name, Dot)
                        THEN findMdFiles(fullPath, entry.entries)
                     ELSE IF entry.kind = "file" /\ EndsWith(entry.name, DotMd)
                        THEN <<[path |-> fullPath, file |-> entry]>>
                     ELSE <<>>
         IN  here \o findMdFiles(dirPath, Tail(entries))

\* The readdirSync calls findMdFiles makes below one directory.
RECURSIVE ReaddirCalls(_)
ReaddirCalls(entries) ==
    IF entries = <<>> THEN <<>>
    ELSE LET entry == Head(entries)
         IN  (IF entry.kind = "dir" /\ ~StartsWith(entry.name, Dot)
                 THEN <<"readdirSync">> \o ReaddirCalls(entry.entries)
                 ELSE <<>>)
             \o ReaddirCalls(Tail(entries))

\* Mutant: the limit is tested once per file, not once per line.
RECURSIVE SearchLinesNoLimit(_, _, _, _, _, _, _)
SearchLinesNoLimit(lines, i, results, found, brainName, lowerQuery, maxResults) ==
    IF i > Len(lines) THEN results
    ELSE SearchLinesNoLimit(lines, i + 1,
            IF Includes(ToLowerCase(lines[i]), lowerQuery)
                THEN Append(results,
                        SearchResult(found.path, brainName, found.path[Len(found.path)],
                            Substring(TrimTokens(lines[i]), 0, PreviewLength),
                            i, "content"))
                ELSE results,
            found, brainName, lowerQuery, maxResults)

\* for (let i = 0; i < lines.length; i++): line number i of the file `found`.
RECURSIVE SearchLines(_, _, _, _, _, _, _)
SearchLines(lines, i, results, found, brainName, lowerQuery, maxResults) ==
    IF i > Len(lines) \/ Len(results) >= maxResults THEN results
    ELSE SearchLines(lines, i + 1,
            IF Includes(ToLowerCase(lines[i]), lowerQuery)
                THEN Append(results,
                        SearchResult(found.path, brainName, found.path[Len(found.path)],
                            Substring(TrimTokens(lines[i]), 0, PreviewLength),
                            i, "content"))
                ELSE results,
            found, brainName, lowerQuery, maxResults)

\* Mutant: the content results of a file are pushed before its filename result.
SearchFileNameLast(found, acc, brainName, lowerQuery, maxResults) ==
    LET fileName == found.path[Len(found.path)]
        byContent == IF found.file.readable
                        THEN SearchLines(found.file.lines, 1, acc.results, found,
                                         brainName, lowerQuery, maxResults)
                        ELSE acc.results
        byName == IF Includes(ToLowerCase(fileName), lowerQuery)
                     THEN Append(byContent,
                             SearchResult(found.path, brainName, fileName, <<>>, 0, "filename"))
                     ELSE byContent
    IN  IF Includes(fileName, DotResolved) \/ Includes(fileName, DotMetadataJson)
            THEN acc
            ELSE [results |-> byName, log |-> Append(acc.log, "readFileSync")]

\* The body of `for (const filePath of mdFiles)` after the limit test.
SearchFile(found, acc, brainName, lowerQuery, maxResults) ==
    LET fileName == found.path[Len(found.path)]
        byName == IF Includes(ToLowerCase(fileName), lowerQuery)
                     THEN Append(acc.results,
                             SearchResult(found.path, brainName, fileName, <<>>, 0, "filename"))
                     ELSE acc.results
        byContent == IF found.file.readable
                        THEN SearchLines(found.file.lines, 1, byName, found,
                                         brainName, lowerQuery, maxResults)
                        ELSE byName
    IN  IF Includes(fileName, DotResolved) \/ Includes(fileName, DotMetadataJson)
            THEN acc
            ELSE [results |-> byContent, log |-> Append(acc.log, "readFileSync")]

RECURSIVE SearchFiles(_, _, _, _, _)
SearchFiles(mdFiles, acc, brainName, lowerQuery, maxResults) ==
    IF mdFiles = <<>> \/ Len(acc.results) >= maxResults THEN acc
    ELSE SearchFiles(Tail(mdFiles),
                     SearchFile(Head(mdFiles), acc, brainName, lowerQuery, maxResults),
                     brainName, lowerQuery, maxResults)

\* The file-system calls of getBrainDisplayName.
DisplayNameCalls(entries) ==
    IF \E i \in 1..Len(entries) : entries[i].name = TaskMdName
        THEN <<"existsSync", "readFileSync">>
        ELSE <<"existsSync">>

\* for (const dir of brainDirs)
RECURSIVE SearchDirs(_, _, _, _)
SearchDirs(brainDirs, acc, lowerQuery, maxResults) ==
    IF brainDirs = <<>> \/ Len(acc.results) >= maxResults THEN acc
    ELSE LET dir == Head(brainDirs)
             brainName == getBrainDisplayName(dir.entries, dir.name)
             mdFiles == findMdFiles(<<dir.name>>, dir.entries)
             calls == DisplayNameCalls(dir.entries)
                        \o <<"readdirSync">> \o ReaddirCalls(dir.entries)
         IN  SearchDirs(Tail(brainDirs),
                        SearchFiles(mdFiles,
                                    [results |-> acc.results, log |-> acc.log \o calls],
                                    brainName, lowerQuery, maxResults),
                        lowerQuery, maxResults)

\* The directories search scans: the non-hidden directories of the root.
BrainDirs(root) ==
    SelectSeq(root, LAMBDA d : d.kind = "dir" /\ ~StartsWith(d.name, Dot))

\* Mutant: only the empty query is refused.
IsTooShortOnlyEmpty(query) == query = <<>>

\* !query || query.trim().length < 2
IsTooShort(query) == query = <<>> \/ Len(TrimTokens(query)) < 2

\* SearchProvider.search(query, maxResults): the results, and the calls made
\* on the file system.
search(query, maxResults, exists, root) ==
    IF IsTooShort(query) THEN [results |-> <<>>, log |-> <<>>]
    ELSE IF ~exists THEN [results |-> <<>>, log |-> <<"existsSync">>]
    ELSE SearchDirs(BrainDirs(root),
                    [results |-> <<>>, log |-> <<"existsSync", "readdirSync">>],
                    ToLowerCase(query), maxResults)

\* Whether glob("**/*.md*") finds a document below a directory.
RECURSIVE HasDocument(_)
HasDocument(entries) ==
    \E i \in 1..Len(entries) :
        /\ ~StartsWith(entries[i].name, Dot)
        /\ IF entries[i].kind = "dir" THEN HasDocument(entries[i].entries)
           ELSE Includes(entries[i].name, DotMd)

\* The folder nodes of getChildren(undefined): one per directory of the root
\* that holds a node, named by the heading of its task.md.
TaskFolders(root) ==
    LET dirs == SelectSeq(root, LAMBDA d :
                    d.kind = "dir" /\ ~StartsWith(d.name, Dot) /\ HasDocument(d.entries))
    IN  [k \in 1..Len(dirs) |->
            [id |-> dirs[k].name,
             name |-> getBrainDisplayName(dirs[k].entries, dirs[k].name)]]

(***************************************************************************)
(* HistoryWebviewManager._handleContentRequest and the four renderings:    *)
(* src/src/history/HistoryWebviewManager.ts.  A content is again the       *)
(* sequence of its lines (split('\n')).  Diff.diffLines is the line diff   *)
(* of the npm package `diff`: it cuts each text into tokens, one per line  *)
(* and each with its line end, compares tokens for equality and returns    *)
(* the runs of a shortest edit script; of two scripts of the same length   *)
(* this model takes the one that removes before it adds.                   *)
(***************************************************************************)
\* The lines the two contents are built from: text, an empty line, and a
\* heading that holds a character to escape.
DiffLineSet == {"a", "", "# <"}

\* One token per line, with its "\n"; a last line without line end is a
\* token unless it is empty.
Tokens(content) ==
    [i \in 1..(Len(content) - 1) |-> [text |-> content[i], nl |-> TRUE]]
        \o (IF content[Len(content)] # ""
               THEN <<[text |-> content[Len(content)], nl |-> FALSE]>>
               ELSE <<>>)

\* The length of a longest common subsequence of two token lists.
RECURSIVE LcsLen(_, _)
LcsLen(a, b) ==
    IF a = <<>> \/ b = <<>> THEN 0
    ELSE IF Head(a) = Head(b) THEN 1 + LcsLen(Tail(a), Tail(b))
    ELSE LET x == LcsLen(Tail(a), b)
             y == LcsLen(a, Tail(b))
         IN  IF x >= y THEN x ELSE y

Change(kind, token) == [kind |-> kind, token |-> token]

\* A shortest edit script from a to b, token by token.
RECURSIVE EditScript(_, _)
EditScript(a, b) ==
    IF a = <<>> THEN [i \in 1..Len(b) |-> Change("added", b[i])]
    ELSE IF b = <<>> THEN [i \in 1..Len(a) |-> Change("removed", a[i])]
    ELSE IF Head(a) = Head(b)
        THEN <<Change("normal", Head(a))>> \o EditScript(Tail(a), Tail(b))
    ELSE IF LcsLen(Tail(a), b) >= LcsLen(a, Tail(b))
        THEN <<Change("removed", Head(a))>> \o EditScript(Tail(a), b)
    ELSE <<Change("added", Head(b))>> \o EditScript(a, Tail(b))

\* The script as runs: neighbours of one kind form one part.
RECURSIVE Runs(_)
Runs(script) ==
    IF script = <<>> THEN <<>>
    ELSE LET rest == Runs(Tail(script))
             c == Head(script)
         IN  IF rest # <<>> /\ rest[1].kind = c.kind
                 THEN <<[kind |-> c.kind, tokens |-> <<c.token>> \o rest[1].tokens]>>
                          \o Tail(rest)
                 ELSE <<[kind |-> c.kind, tokens |-> <<c.token>>]>> \o rest

\* Diff.diffLines(fromContent, toContent)
diffLines(fromContent, toContent) ==
    Runs(EditScript(Tokens(fromContent), Tokens(toContent)))

\* part.value: the tokens joined, as a line sequence.
PartValue(part) ==
    [i \in 1..Len(part.tokens) |-> part.tokens[i].text]
        \o (IF part.tokens = <<>> \/ part.tokens[Len(part.tokens)].nl
               THEN <<"">> ELSE <<>>)

\* Mutant: the line end that closes the part is not removed.
PartLinesKeepFinalNewline(part) == PartValue(part)

\* part.value.replace(/\n$/, '').split('\n')
PartLines(part) ==
    LET value == PartValue(part)
    IN  IF Len(value) >= 2 /\ value[Len(value)] = ""
            THEN SubSeq(value, 1, Len(value) - 1)
            ELSE value

\* Mutant: the lines of every part are counted as added.
RECURSIVE DiffStatsCountingAll(_)
DiffStatsCountingAll(diff) ==
    IF diff = <<>> THEN [added |-> 0, removed |-> 0]
    ELSE LET rest == DiffStatsCountingAll(Tail(diff))
         IN  [added |-> rest.added + Len(PartLines(Head(diff))), removed |-> rest.removed]

\* diff.forEach(part => ...) of _handleContentRequest: the two counters.
RECURSIVE DiffStats(_)
DiffStats(diff) ==
    IF diff = <<>> THEN [added |-> 0, removed |-> 0]
    ELSE LET rest == DiffStats(Tail(diff))
             lineCount == Len(PartLines(Head(diff)))
         IN  IF Head(diff).kind = "added"
                 THEN [added |-> rest.added + lineCount, removed |-> rest.removed]
             ELSE IF Head(diff).kind = "removed"
                 THEN [added |-> rest.added, removed |-> rest.removed + lineCount]
             ELSE rest

\* _escapeHtml on the lines of the model.
EscapeHtml(line) == IF line = "# <" THEN "# &lt;" ELSE line

\* _mdLineToHtml on the lines of the model: escape, then the heading rule.
MdLineToHtml(line) ==
    IF line = "# <" THEN "<h1 style=\"margin:2px 0\">&lt;</h1>" ELSE line

\* l || ' ' and rendered || '&nbsp;'
OrElse(str, blank) == IF str = "" THEN blank ELSE str

\* The text of one row: the escaped source line, or the rendered line.
RowText(mode, line) ==
    IF mode = "source" THEN OrElse(EscapeHtml(line), " ")
    ELSE OrElse(MdLineToHtml(line), "&nbsp;")

SpacerText(mode) == IF mode = "source" THEN " " ELSE "&nbsp;"

Row(cls, text) == [cls |-> cls, text |-> text]

\* _sendSourceUnified: one span per part, holding the escaped value.
SourceUnified(diff) ==
    [k \in 1..Len(diff) |->
        [cls |-> diff[k].kind,
         value |-> [i \in 1..Len(PartValue(diff[k])) |-> EscapeHtml(PartValue(diff[k])[i])]]]

\* _sendRenderedUnified: one div per line of each part.
RECURSIVE RenderedUnified(_)
RenderedUnified(diff) ==
    IF diff = <<>> THEN <<>>
    ELSE [i \in 1..Len(PartLines(Head(diff))) |->
             Row(Head(diff).kind, RowText("rendered", PartLines(Head(diff))[i]))]
         \o RenderedUnified(Tail(diff))

\* Mutant: the other pane gets no placeholder for an added or removed line.
RECURSIVE SplitRowsNoSpacer(_, _, _)
SplitRowsNoSpacer(diff, mode, side) ==
    IF diff = <<>> THEN <<>>
    ELSE LET part == Head(diff)
             lines == PartLines(part)
             own == IF side = "left" THEN "removed" ELSE "added"
             rows == IF part.kind = "normal" \/ part.kind = own
                        THEN [i \in 1..Len(lines) |-> Row(part.kind, RowText(mode, lines[i]))]
                        ELSE <<>>
         IN  rows \o SplitRowsNoSpacer(Tail(diff), mode, side)

\* leftLines (side = "left") and rightLines (side = "right") of
\* _sendSourceSplit and _sendRenderedSplit.
RECURSIVE SplitRows(_, _, _)
SplitRows(diff, mode, side) ==
    IF diff = <<>> THEN <<>>
    ELSE LET part == Head(diff)
             lines == PartLines(part)
             own == IF side = "left" THEN "removed" ELSE "added"
             rows == [i \in 1..Len(lines) |->
                        IF part.kind = "normal" \/ part.kind = own
                            THEN Row(part.kind, RowText(mode, lines[i]))
                            ELSE Row("spacer", SpacerText(mode))]
         IN  rows \o SplitRows(Tail(diff), mode, side)

ErrorFragment == <<Row("error", "Error")>>

\* The rendering message of one request.
Rendering(mode, layout, readable, diff) ==
    IF layout = "unified"
        THEN [command |-> "setUnified",
              html |-> IF ~readable THEN ErrorFragment
                       ELSE IF mode = "source" THEN SourceUnified(diff)
                       ELSE RenderedUnified(diff)]
        ELSE [command |-> "setSplit",
              fromHtml |-> IF readable THEN SplitRows(diff, mode, "left") ELSE ErrorFragment,
              toHtml |-> IF readable THEN SplitRows(diff, mode, "right") ELSE ErrorFragment]

\* _handleContentRequest(mode, layout, fromId, toId): the messages posted.
handleContentRequest(mode, layout, readable, fromContent, toContent) ==
    LET diff == diffLines(fromContent, toContent)
        stats == IF readable
                    THEN <<[command |-> "setDiffStats",
                            added |-> DiffStats(diff).added,
                            removed |-> DiffStats(diff).removed]>>
                    ELSE <<>>
    IN  stats \o <<Rendering(mode, layout, readable, diff)>>

SrIdle ==
    /\ srExists = FALSE
    /\ srRoot = <<>>
    /\ srQuery = <<>>
    /\ srMax = 0
    /\ srOut = [results |-> <<>>, log |-> <<>>]
    /\ srDone = FALSE
    /\ treeNames = <<>>

DfIdle ==
    /\ dfFrom = <<"">>
    /\ dfTo = <<"">>
    /\ dfReadable = [from |-> TRUE, to |-> TRUE]
    /\ dfReq = <<>>
    /\ posted = <<>>
    /\ dfPc = "idle"

\* No search box is open.
UiIdle ==
    /\ uiValue = <<>>
    /\ uiTimers = {}
    /\ debounceTimer = 0
    /\ uiQuiet = 0
    /\ uiItems = <<>>
    /\ uiAwait = <<>>
    /\ uiScans = <<>>

\* The webview script has not run.
WvIdle ==
    /\ wvVersions = <<>>
    /\ fromSelect = <<>>
    /\ toSelect = <<>>
    /\ wvListeners = [from |-> <<>>, to |-> <<>>]
    /\ wvSent = <<>>
    /\ wvEvent = "load"
    /\ wvInits = 0
    /\ currentMode = "source"
    /\ currentLayout = "unified"

\* No history panel was ever opened.
PnIdle ==
    /\ currentPanel = 0
    /\ panels = <<>>

UxIdle == UiIdle /\ WvIdle /\ PnIdle

FmIdle ==
    /\ taskMd = <<"">>
    /\ fmPrev = <<"">>
    /\ fmUpd = EmptyObj
    /\ fmBase = <<"">>
    /\ fmStage = "init"

\* One call of buildGraph on any root of the layout above.
Init ==
    /\ FmIdle
    /\ FsIdle
    /\ SrIdle
    /\ DfIdle
    /\ UxIdle
    /\ (InitScanFiles \/ InitLinkFiles \/ InitNoRoot)

\* The history view of a document whose snapshots come and go.
HistoryInit ==
    /\ FmIdle
    /\ FsIdle
    /\ SrIdle
    /\ DfIdle
    /\ UxIdle
    /\ InitHistoryFiles

\* brainManager.buildGraph(): glob lists the matching files in some order.
BuildGraph ==
    /\ \E files \in Orderings({p \in fsFiles : GlobMatches(p)}) :
          /\ discovered' = (IF rootExists THEN {files[i] : i \in 1..Len(files)} ELSE {})
          /\ graph' = buildGraph(rootExists, files, fsFiles, fsText)
    /\ built' = TRUE
    /\ UNCHANGED <<rootExists, fsFiles, fsMtime, fsText, versions, shown, loadedFs>>
    /\ UNCHANGED fmVars
    /\ UNCHANGED <<srVars, dfVars, uxVars>>

\* HistoryWebviewManager.createOrShow(node) for a node of the last graph.
ShowHistory ==
    /\ \E i \in 1..Len(graph.nodes) :
          /\ versions' = loadVersions(graph.nodes[i], fsFiles, fsMtime)
          /\ shown' = graph.nodes[i]
    /\ loadedFs' = fsFiles
    /\ UNCHANGED <<rootExists, fsFiles, fsMtime, fsText, discovered, graph, built>>
    /\ UNCHANGED fmVars
    /\ UNCHANGED <<srVars, dfVars, uxVars>>

\* The file system is owned by others: a file may vanish at any time.
ExternalDelete ==
    /\ \E p \in fsFiles : fsFiles' = fsFiles \ {p}
    /\ UNCHANGED <<rootExists, fsMtime, fsText, discovered, graph, built, versions, shown, loadedFs>>
    /\ UNCHANGED fmVars
    /\ UNCHANGED <<srVars, dfVars, uxVars>>

Next == BuildGraph

Spec == Init /\ [][Next]_vars

HistoryNext == BuildGraph \/ ShowHistory \/ ExternalDelete

SpecHistory == HistoryInit /\ [][HistoryNext]_vars

FmOnlyInit == FmInit /\ FsIdle /\ InitNoRoot /\ SrIdle /\ DfIdle /\ UxIdle

SpecFm == FmOnlyInit /\ [][FmNext]_vars

(***************************************************************************)
(* The directories SearchProvider and the tree view read, and the calls.   *)
(***************************************************************************)
MaxLimit == 3          \* maxResults ranges over 0..MaxLimit

MaxTaskLines == 3      \* task.md has at most this many lines here

NameAbMd == <<"a", "b", ".", "m", "d">>

\* The lines task.md is built from: a delimiter, an indented heading
\* " # Ab ", a line that holds "aB", and a line that holds neither.
SearchLineSet ==
    {Dashes, <<" ", "#", " ", "A", "b", " ">>, <<"x", "a", "B">>, <<"c">>}

TaskContents ==
    {<< <<>> >>} \cup UNION {[1..k -> SearchLineSet] : k \in 1..MaxTaskLines}

Queries ==
    {<<>>, <<"a">>, <<" ", "a", " ">>, <<"a", "b">>, <<"A", "B">>, <<"z", "z">>}

\* One group that holds only task.md.
SmallRoot(content) ==
    <<DirEntry(<<"g", "1">>, <<FileEntry(TaskMdName, content, TRUE)>>)>>

\* A hidden group, a file next to the groups, a group with a sub-directory
\* and a hidden directory, and a group without task.md that holds a snapshot
\* copy, an unreadable document and a text file.
LargeRoot(content) ==
    <<DirEntry(<<".", "h">>, <<FileEntry(NameAbMd, << <<"a", "b">> >>, TRUE)>>),
      FileEntry(NameAbMd, << <<"a", "b">> >>, TRUE),
      DirEntry(<<"g", "1">>,
          <<FileEntry(NameAbMd, << <<"c">>, <<"a", "b">> >>, TRUE),
            FileEntry(TaskMdName, content, TRUE),
            DirEntry(<<"s">>, <<FileEntry(NameAbMd, << <<"a", "b">> >>, TRUE)>>),
            DirEntry(<<".", "s">>, <<FileEntry(NameAbMd, << <<"a", "b">> >>, TRUE)>>)>>),
      DirEntry(<<"g", "2">>,
          <<FileEntry(<<"a", "b">> \o DotResolved \o DotMd, << <<"a", "b">> >>, TRUE),
            FileEntry(NameAbMd, << <<"a", "b">> >>, FALSE),
            FileEntry(<<"a", "b", ".", "t", "x", "t">>, << <<"a", "b">> >>, TRUE)>>)>>

\* One search call, with any query and limit, on a missing or existing root.
SearchInit ==
    /\ FmIdle
    /\ FsIdle
    /\ InitNoRoot
    /\ DfIdle
    /\ UxIdle
    /\ srQuery \in Queries
    /\ srMax \in 0..MaxLimit
    /\ \/ srExists = FALSE /\ srRoot = <<>>
       \/ /\ srExists = TRUE
          /\ \E content \in TaskContents :
                srRoot \in {SmallRoot(content), LargeRoot(content)}
    /\ srOut = [results |-> <<>>, log |-> <<>>]
    /\ srDone = FALSE
    /\ treeNames = <<>>

\* searchProvider.search(value, maxResults)
Search ==
    /\ ~srDone
    /\ srOut' = search(srQuery, srMax, srExists, srRoot)
    /\ srDone' = TRUE
    /\ UNCHANGED <<srExists, srRoot, srQuery, srMax, treeNames>>
    /\ UNCHANGED <<fmVars, fsVars, dfVars, uxVars>>

\* BrainTreeProvider.getChildren(undefined): the folder nodes of the tree.
GetChildren ==
    /\ treeNames' = (IF srExists THEN TaskFolders(srRoot) ELSE <<>>)
    /\ UNCHANGED <<srExists, srRoot, srQuery, srMax, srOut, srDone>>
    /\ UNCHANGED <<fmVars, fsVars, dfVars, uxVars>>

SearchNext == Search \/ GetChildren

SpecSearch == SearchInit /\ [][SearchNext]_vars



(***************************************************************************)
(* The history panel answering requestContent messages.                    *)
(***************************************************************************)
MaxDiffLines == 3      \* each of the two contents has at most this many lines

DiffContents == UNION {[1..k -> DiffLineSet] : k \in 1..MaxDiffLines}

Modes == {"source", "rendered"}

Layouts == {"unified", "split"}

\* Two version files of any content; one of them may have vanished.
DiffInit ==
    /\ FmIdle
    /\ FsIdle
    /\ InitNoRoot
    /\ SrIdle
    /\ UxIdle
    /\ dfPc = "idle"
    /\ dfReadable \in {[from |-> TRUE, to |-> TRUE], [from |-> FALSE, to |-> TRUE],
                       [from |-> TRUE, to |-> FALSE]}
    /\ dfFrom \in (IF dfReadable.from THEN DiffContents ELSE {<<"">>})
    /\ dfTo \in (IF dfReadable.to THEN DiffContents ELSE {<<"">>})
    /\ dfReq = <<>>
    /\ posted = <<>>

\* The webview sends requestContent with the mode and layout it shows.
RequestContent ==
    /\ \E mode \in Modes : \E layout \in Layouts :
          /\ dfReq' = [mode |-> mode, layout |-> layout]
          /\ posted' = handleContentRequest(mode, layout,
                                            dfReadable.from /\ dfReadable.to, dfFrom, dfTo)
    /\ UNCHANGED <<dfFrom, dfTo, dfReadable, dfPc>>
    /\ UNCHANGED <<fmVars, fsVars, srVars, uxVars>>

DiffNext == RequestContent

SpecDiff == DiffInit /\ [][DiffNext]_vars

(***************************************************************************)
(* The same handler step by step: _handleContentRequest reads the two     *)
(* files for the statistics, then the _send method it dispatches to reads *)
(* them again.  The files belong to other processes, which may rewrite or *)
(* remove them between the two reads.                                     *)
(***************************************************************************)
StepContents == UNION {[1..k -> {"a", ""}] : k \in 1..MaxDiffLines}

\* The try block of _handleContentRequest: setDiffStats of the diff it
\* computes, or nothing when a read throws.
StatsMessages(readable, fromContent, toContent) ==
    IF readable
        THEN LET diff == diffLines(fromContent, toContent)
             IN  <<[command |-> "setDiffStats",
                    added |-> DiffStats(diff).added,
                    removed |-> DiffStats(diff).removed]>>
        ELSE <<>>

\* Mutant: the _send methods do not catch a failed read, so nothing is posted.
SendContentOnlyReadable(mode, layout, readable, fromContent, toContent) ==
    IF readable
        THEN <<Rendering(mode, layout, readable, diffLines(fromContent, toContent))>>
        ELSE <<>>

\* Mutant: the chain has no branch for the rendered split view.
SendContentNoRenderedSplit(mode, layout, readable, fromContent, toContent) ==
    IF mode = "rendered" /\ layout = "split"
        THEN <<>>
        ELSE <<Rendering(mode, layout, readable, diffLines(fromContent, toContent))>>

\* The if / else-if chain of _handleContentRequest and the _send method it
\* calls, which reads both files and computes the diff itself.
SendContent(mode, layout, readable, fromContent, toContent) ==
    LET diff == diffLines(fromContent, toContent)
    IN  IF mode = "source" /\ layout = "unified"
            THEN <<Rendering("source", "unified", readable, diff)>>
        ELSE IF mode = "source" /\ layout = "split"
            THEN <<Rendering("source", "split", readable, diff)>>
        ELSE IF mode = "rendered" /\ layout = "unified"
            THEN <<Rendering("rendered", "unified", readable, diff)>>
        ELSE IF mode = "rendered" /\ layout = "split"
            THEN <<Rendering("rendered", "split", readable, diff)>>
        ELSE <<>>

StepInit ==
    /\ FmIdle
    /\ FsIdle
    /\ InitNoRoot
    /\ SrIdle
    /\ UxIdle
    /\ dfPc = "idle"
    /\ dfReadable \in {[from |-> TRUE, to |-> TRUE], [from |-> FALSE, to |-> TRUE],
                       [from |-> TRUE, to |-> FALSE]}
    /\ dfFrom \in (IF dfReadable.from THEN StepContents ELSE {<<"">>})
    /\ dfTo \in (IF dfReadable.to THEN StepContents ELSE {<<"">>})
    /\ dfReq = <<>>
    /\ posted = <<>>

\* The message arrives: the first two reads and setDiffStats.
ReceiveRequest ==
    /\ dfPc = "idle"
    /\ \E mode \in Modes : \E layout \in Layouts :
          dfReq' = [mode |-> mode, layout |-> layout]
    /\ posted' = StatsMessages(dfReadable.from /\ dfReadable.to, dfFrom, dfTo)
    /\ dfPc' = "render"
    /\ UNCHANGED <<dfFrom, dfTo, dfReadable>>
    /\ UNCHANGED <<fmVars, fsVars, srVars, uxVars>>

\* The dispatch: the second two reads and the rendering message.
SendRendering ==
    /\ dfPc = "render"
    /\ posted' = posted \o SendContent(dfReq.mode, dfReq.layout,
                                       dfReadable.from /\ dfReadable.to, dfFrom, dfTo)
    /\ dfPc' = "idle"
    /\ UNCHANGED <<dfFrom, dfTo, dfReadable, dfReq>>
    /\ UNCHANGED <<fmVars, fsVars, srVars, uxVars>>

\* Another process writes one of the two version files while the request is
\* handled (what it does between two requests only changes the files the next
\* request starts from, and those are arbitrary already).
ExternalWrite ==
    /\ dfPc = "render"
    /\ \E content \in StepContents :
          \/ /\ dfFrom' = content
             /\ dfReadable' = [dfReadable EXCEPT !.from = TRUE]
             /\ UNCHANGED dfTo
          \/ /\ dfTo' = content
             /\ dfReadable' = [dfReadable EXCEPT !.to = TRUE]
             /\ UNCHANGED dfFrom
    /\ UNCHANGED <<dfReq, posted, dfPc>>
    /\ UNCHANGED <<fmVars, fsVars, srVars, uxVars>>

\* Another process removes one of the two version files meanwhile.
ExternalRemove ==
    /\ dfPc = "render"
    /\ \/ /\ dfReadable.from
          /\ dfFrom' = <<"">>
          /\ dfReadable' = [dfReadable EXCEPT !.from = FALSE]
          /\ UNCHANGED dfTo
       \/ /\ dfReadable.to
          /\ dfTo' = <<"">>
          /\ dfReadable' = [dfReadable EXCEPT !.to = FALSE]
          /\ UNCHANGED dfFrom
    /\ UNCHANGED <<dfReq, posted, dfPc>>
    /\ UNCHANGED <<fmVars, fsVars, srVars, uxVars>>

StepNext == ReceiveRequest \/ SendRendering \/ ExternalWrite \/ ExternalRemove

SpecSteps == StepInit /\ [][StepNext]_vars

(***************************************************************************)
(* The search box of the searchBrains command: the value the user edits,  *)
(* the timers of the event loop, and the items shown.                     *)
(***************************************************************************)
DebounceMs == 300      \* the delay given to setTimeout

DefaultMaxResults == 50 \* maxResults when search is called with the value only

\* The values the user types.
UiQueries == {<<>>, <<"a">>, <<"a", "b">>, <<"x", "a">>, <<"z", "z">>}

\* The directory the provider searches: one group whose task.md holds a
\* heading " # Ab " and a line "xaB".
UiRoot == SmallRoot(<< <<" ", "#", " ", "A", "b", " ">>, <<"x", "a", "B">> >>)

\* results.map(r => ({label, description, detail, _filePath, _lineNumber}))
ToItem(r) ==
    [label |-> IF r.matchType = "filename"
                  THEN <<"$(file) ", r.fileName>>
                  ELSE <<"$(search) ", r.fileName, ":", r.lineNumber>>,
     description |-> r.brainName,
     detail |-> IF r.matchType = "content" THEN r.matchLine ELSE <<>>,
     filePath |-> r.filePath,
     lineNumber |-> r.lineNumber]

ToItems(results) == [k \in 1..Len(results) |-> ToItem(results[k])]

\* Mutant: the handle is never cleared.
ClearTimeoutNever(timers, handle) == timers

\* clearTimeout(handle): the timer of that handle, if it is still live, is
\* removed; the caller tests `if (debounceTimer)` first, and 0 is no handle.
ClearTimeout(timers, handle) == {t \in timers : t.id # handle}

\* setTimeout(callback, DebounceMs): a handle no live timer has.
FreshTimer(timers) == CHOOSE id \in 1..(Cardinality(timers) + 1) :
                          \A t \in timers : t.id # id

\* Mutant: a value that is too short leaves the items as they are.
TimerCallbackKeepsItems(value, items) ==
    IF Len(TrimTokens(value)) < 2
        THEN [items |-> items, await |-> <<>>, scanned |-> <<>>]
        ELSE [items |-> items,
              await |-> <<search(value, DefaultMaxResults, TRUE, UiRoot).results>>,
              scanned |-> <<value>>]

\* The callback given to setTimeout, up to its await: a value of fewer than
\* 2 characters after trim empties the items; any other value is searched,
\* and the callback is suspended on the promise search returned.  search does
\* all of its work in the call (it reads with existsSync, readdirSync and
\* readFileSync), so the promise is already settled.
TimerCallback(value, items) ==
    IF Len(TrimTokens(value)) < 2
        THEN [items |-> <<>>, await |-> <<>>, scanned |-> <<>>]
        ELSE [items |-> items,
              await |-> <<search(value, DefaultMaxResults, TRUE, UiRoot).results>>,
              scanned |-> <<value>>]

UiInit ==
    /\ FmIdle
    /\ FsIdle
    /\ InitNoRoot
    /\ SrIdle
    /\ DfIdle
    /\ WvIdle
    /\ PnIdle
    /\ UiIdle

\* quickPick.onDidChangeValue(value => ...): the pending timer is cleared and
\* a timer for the new value is set.  An event is delivered only after the
\* continuations of the running job have run.
ChangeValue ==
    /\ uiAwait = <<>>
    /\ \E value \in UiQueries \ {uiValue} :
          LET cleared == IF debounceTimer # 0
                            THEN ClearTimeout(uiTimers, debounceTimer)
                            ELSE uiTimers
              id == FreshTimer(cleared)
          IN  /\ uiValue' = value
              /\ uiTimers' = cleared \cup {[id |-> id, value |-> value, age |-> 0]}
              /\ debounceTimer' = id
    /\ uiQuiet' = 0
    /\ uiScans' = <<>>
    /\ UNCHANGED <<uiItems, uiAwait>>
    /\ UNCHANGED <<fmVars, fsVars, srVars, dfVars, wvVars, pnVars>>

\* One millisecond passes.
Tick ==
    /\ uiAwait = <<>>
    /\ \/ uiQuiet < DebounceMs
       \/ \E t \in uiTimers : t.age < DebounceMs
    /\ uiQuiet' = (IF uiQuiet < DebounceMs THEN uiQuiet + 1 ELSE uiQuiet)
    /\ uiTimers' = {[t EXCEPT !.age = IF t.age < DebounceMs THEN t.age + 1 ELSE t.age] :
                       t \in uiTimers}
    /\ UNCHANGED <<uiValue, debounceTimer, uiItems, uiAwait, uiScans>>
    /\ UNCHANGED <<fmVars, fsVars, srVars, dfVars, wvVars, pnVars>>

\* A timer whose delay has passed runs its callback.
TimerFire ==
    /\ uiAwait = <<>>
    /\ \E t \in uiTimers :
          /\ t.age >= DebounceMs
          /\ uiTimers' = uiTimers \ {t}
          /\ uiItems' = TimerCallback(t.value, uiItems).items
          /\ uiAwait' = TimerCallback(t.value, uiItems).await
          /\ uiScans' = uiScans \o TimerCallback(t.value, uiItems).scanned
    /\ UNCHANGED <<uiValue, debounceTimer, uiQuiet>>
    /\ UNCHANGED <<fmVars, fsVars, srVars, dfVars, wvVars, pnVars>>

\* The callback resumes after its await: quickPick.items = results.map(...).
ScanDone ==
    /\ uiAwait # <<>>
    /\ uiItems' = ToItems(uiAwait[1])
    /\ uiAwait' = <<>>
    /\ UNCHANGED <<uiValue, uiTimers, debounceTimer, uiQuiet, uiScans>>
    /\ UNCHANGED <<fmVars, fsVars, srVars, dfVars, wvVars, pnVars>>

UiNext == ChangeValue \/ Tick \/ TimerFire \/ ScanDone

SpecUi == UiInit /\ [][UiNext]_vars

(***************************************************************************)
(* The script of the history webview: the version list it was sent, the   *)
(* two selects, the mode and layout, and the messages it posts.           *)
(***************************************************************************)
MaxVersions == 3       \* an initVersions message lists at most this many versions

MaxInits == 2          \* initVersions messages received by one webview

\* The ids of a version list of n entries: snapshots, then the live file.
VersionIds(n) == [i \in 1..n |-> IF i = n THEN Doc1 ELSE Snapshot(Doc1, i - 1)]

Directions == {"first", "prev", "next", "last"}

\* versions.findIndex(v => v.id === value): 0-based, -1 when there is none.
FindIndex(ids, value) ==
    LET hits == {i \in 1..Len(ids) : ids[i] = value}
    IN  IF hits = {} THEN -1 ELSE (CHOOSE i \in hits : \A j \in hits : i <= j) - 1

\* Math.max(0, Math.min(idx, last))
Clamp(idx, last) == IF idx > last THEN last ELSE IF idx < 0 THEN 0 ELSE idx

\* Mutant: prev steps back without testing fromIdx > 0.
NavIndexesPrevUnguarded(direction, fromIdx, toIdx, last) ==
    LET moved == IF direction = "prev" THEN <<fromIdx - 1, fromIdx>>
                 ELSE IF direction = "next"
                     THEN (IF toIdx < last THEN <<toIdx, toIdx + 1>> ELSE <<fromIdx, toIdx>>)
                 ELSE IF direction = "first" THEN <<0, 1>>
                 ELSE <<last - 1, last>>
    IN  <<Clamp(moved[1], last), Clamp(moved[2], last)>>

\* The body of nav(direction) after its guard: the two indexes selected.
NavIndexes(direction, fromIdx, toIdx, last) ==
    LET moved == IF direction = "prev"
                     THEN (IF fromIdx > 0 THEN <<fromIdx - 1, fromIdx>> ELSE <<fromIdx, toIdx>>)
                 ELSE IF direction = "next"
                     THEN (IF toIdx < last THEN <<toIdx, toIdx + 1>> ELSE <<fromIdx, toIdx>>)
                 ELSE IF direction = "first" THEN <<0, 1>>
                 ELSE IF direction = "last" THEN <<last - 1, last>>
                 ELSE <<fromIdx, toIdx>>
    IN  <<Clamp(moved[1], last), Clamp(moved[2], last)>>

\* Mutant: every call appends the listener.
AddEventListenerAlways(listeners, callback) == Append(listeners, callback)

\* EventTarget.addEventListener(type, callback): a callback the target already
\* has for the type is not added again.
AddEventListener(listeners, callback) ==
    IF \E i \in 1..Len(listeners) : listeners[i] = callback
        THEN listeners
        ELSE Append(listeners, callback)

\* The message requestContent posts.
RequestMessage(mode, layout, fromId, toId) ==
    [command |-> "requestContent", mode |-> mode, layout |-> layout,
     fromId |-> fromId, toId |-> toId]

\* The messages posted when the listeners of an event run: requestContent is
\* the only callback the script registers on the selects.
Dispatch(listeners, mode, layout, fromId, toId) ==
    [i \in 1..Len(listeners) |-> RequestMessage(mode, layout, fromId, toId)]

WvInit ==
    /\ FmIdle
    /\ FsIdle
    /\ InitNoRoot
    /\ SrIdle
    /\ DfIdle
    /\ UiIdle
    /\ PnIdle
    /\ WvIdle

\* window 'message' with command initVersions: renderDropdowns, the default
\* selection and requestContent.
InitVersions ==
    /\ wvInits < MaxInits
    /\ \E n \in 0..MaxVersions :
          LET ids == VersionIds(n)
              from == IF n >= 2 THEN ids[n - 1] ELSE IF n = 1 THEN ids[1] ELSE <<>>
              to == IF n >= 2 THEN ids[n] ELSE IF n = 1 THEN ids[1] ELSE <<>>
          IN  /\ wvVersions' = ids
              /\ fromSelect' = from
              /\ toSelect' = to
              /\ wvSent' = <<RequestMessage(currentMode, currentLayout, from, to)>>
    /\ wvListeners' = [from |-> AddEventListener(wvListeners.from, "requestContent"),
                       to |-> AddEventListener(wvListeners.to, "requestContent")]
    /\ wvEvent' = "initVersions"
    /\ wvInits' = wvInits + 1
    /\ UNCHANGED <<currentMode, currentLayout>>
    /\ UNCHANGED <<fmVars, fsVars, srVars, dfVars, uiVars, pnVars>>

\* A click on one of the four navigation buttons: nav(direction).
Nav ==
    /\ \E direction \in Directions :
          /\ wvEvent' = direction
          /\ IF Len(wvVersions) < 2
                THEN /\ wvSent' = <<>>
                     /\ UNCHANGED <<fromSelect, toSelect>>
                ELSE LET last == Len(wvVersions) - 1
                         idx == NavIndexes(direction, FindIndex(wvVersions, fromSelect),
                                           FindIndex(wvVersions, toSelect), last)
                     IN  /\ fromSelect' = wvVersions[idx[1] + 1]
                         /\ toSelect' = wvVersions[idx[2] + 1]
                         /\ wvSent' = <<RequestMessage(currentMode, currentLayout,
                                                       fromSelect', toSelect')>>
    /\ UNCHANGED <<wvVersions, wvListeners, wvInits, currentMode, currentLayout>>
    /\ UNCHANGED <<fmVars, fsVars, srVars, dfVars, uiVars, pnVars>>

\* The user picks another option of the From or the To select: the select's
\* 'change' listeners run.
SelectChange ==
    /\ \E i \in 1..Len(wvVersions) :
          \/ /\ wvVersions[i] # fromSelect
             /\ fromSelect' = wvVersions[i]
             /\ UNCHANGED toSelect
             /\ wvSent' = Dispatch(wvListeners.from, currentMode, currentLayout,
                                   fromSelect', toSelect')
          \/ /\ wvVersions[i] # toSelect
             /\ toSelect' = wvVersions[i]
             /\ UNCHANGED fromSelect
             /\ wvSent' = Dispatch(wvListeners.to, currentMode, currentLayout,
                                   fromSelect', toSelect')
    /\ wvEvent' = "change"
    /\ UNCHANGED <<wvVersions, wvListeners, wvInits, currentMode, currentLayout>>
    /\ UNCHANGED <<fmVars, fsVars, srVars, dfVars, uiVars, pnVars>>

\* A click on the Source or the Rendered button: setMode(mode).
SetMode ==
    /\ \E mode \in Modes :
          /\ currentMode' = mode
          /\ wvSent' = <<RequestMessage(mode, currentLayout, fromSelect, toSelect)>>
    /\ wvEvent' = "setMode"
    /\ UNCHANGED <<wvVersions, fromSelect, toSelect, wvListeners, wvInits, currentLayout>>
    /\ UNCHANGED <<fmVars, fsVars, srVars, dfVars, uiVars, pnVars>>

\* A click on the Unified or the Split button: setLayout(layout).
SetLayout ==
    /\ \E layout \in Layouts :
          /\ currentLayout' = layout
          /\ wvSent' = <<RequestMessage(currentMode, layout, fromSelect, toSelect)>>
    /\ wvEvent' = "setLayout"
    /\ UNCHANGED <<wvVersions, fromSelect, toSelect, wvListeners, wvInits, currentMode>>
    /\ UNCHANGED <<fmVars, fsVars, srVars, dfVars, uiVars, pnVars>>

\* The buttons alone: the selection is only moved by nav.
NavNext == InitVersions \/ Nav \/ SetMode \/ SetLayout

SpecNav == WvInit /\ [][NavNext]_vars

WvNext == InitVersions \/ Nav \/ SelectChange \/ SetMode \/ SetLayout

SpecWebview == WvInit /\ [][WvNext]_vars

(***************************************************************************)
(* The history panels: createOrShow, _loadVersions and dispose.           *)
(***************************************************************************)
MaxPanels == 2         \* panels created in one run

\* Two nodes of the graph, each with its own snapshots.
PnNode(doc, snapshots) == [path |-> doc, resolvedVersions |-> snapshots]

PnNodes ==
    {PnNode(Doc1, <<Snapshot(Doc1, 1), Snapshot(Doc1, 0)>>),
     PnNode(Doc2, <<Snapshot(Doc2, 0)>>)}

PnFiles == {Doc1, Snapshot(Doc1, 0), Snapshot(Doc1, 1), Doc2, Snapshot(Doc2, 0)}

\* stat.mtime.getTime() of those files: a snapshot of a higher number is newer.
PnMtime == [p \in PnFiles |-> IF p = Snapshot(Doc1, 1) THEN 2 ELSE 1]

\* Mutant: the list is not emptied before the versions are collected.
LoadVersionsIntoKeeping(held, node, existing) == held \o loadVersions(node, existing, PnMtime)

\* _loadVersions(node) on a panel that holds the list `held`: the statement
\* this._versions = [] comes first.
LoadVersionsInto(held, node, existing) == loadVersions(node, existing, PnMtime)

PnInit ==
    /\ FmIdle
    /\ FsIdle
    /\ rootExists = TRUE
    /\ fsFiles \in SUBSET PnFiles
    /\ fsText = [p \in Universe |-> DefaultText(p)]
    /\ fsMtime = [p \in Universe |-> 1]
    /\ SrIdle
    /\ DfIdle
    /\ UiIdle
    /\ WvIdle
    /\ PnIdle

\* HistoryWebviewManager.createOrShow(extensionUri, node)
CreateOrShow ==
    /\ \E node \in PnNodes :
          IF currentPanel # 0
              THEN LET loaded == LoadVersionsInto(panels[currentPanel].versions, node, fsFiles)
                   IN  /\ panels' = [panels EXCEPT ![currentPanel] =
                                        [disposed |-> FALSE, node |-> node,
                                         versions |-> loaded, initVersions |-> loaded]]
                       /\ UNCHANGED currentPanel
              ELSE LET loaded == LoadVersionsInto(<<>>, node, fsFiles)
                   IN  /\ Len(panels) < MaxPanels
                       /\ panels' = Append(panels, [disposed |-> FALSE, node |-> node,
                                                    versions |-> loaded, initVersions |-> loaded])
                       /\ currentPanel' = Len(panels) + 1
    /\ UNCHANGED <<fmVars, fsVars, srVars, dfVars, uiVars, wvVars>>

\* The user closes a panel: onDidDispose runs dispose(), which clears the
\* static currentPanel.
DisposePanel ==
    /\ \E i \in 1..Len(panels) :
          /\ ~panels[i].disposed
          /\ panels' = [panels EXCEPT ![i].disposed = TRUE]
    /\ currentPanel' = 0
    /\ UNCHANGED <<fmVars, fsVars, srVars, dfVars, uiVars, wvVars>>

\* A file of the two documents vanishes.
PnExternalDelete ==
    /\ \E p \in fsFiles : fsFiles' = fsFiles \ {p}
    /\ UNCHANGED <<rootExists, fsMtime, fsText, discovered, graph, built, versions, shown, loadedFs>>
    /\ UNCHANGED <<fmVars, srVars, dfVars, uxVars>>

PnNext == CreateOrShow \/ DisposePanel \/ PnExternalDelete

SpecPanel == PnInit /\ [][PnNext]_vars

(***************************************************************************)
(* Properties of buildGraph and scan, checked under Spec.                  *)
(***************************************************************************)
Nodes == graph.nodes

Links == graph.links

NodeIds == {Nodes[i]["id"] : i \in 1..Len(Nodes)}

\* The path with a trailing marker, and the numeric suffix after it, removed.
StripMarker(p) ==
    IF Len(p) >= 2 /\ p[Len(p) - 1] = ".resolved" THEN SubSeq(p, 1, Len(p) - 2)
    ELSE IF Len(p) >= 1 /\ p[Len(p)] = ".resolved" THEN SubSeq(p, 1, Len(p) - 1)
    ELSE p

IsSidecarPath(p) == Len(p) >= 1 /\ p[Len(p)] = ".metadata.json"

\* A link span of the document at docPath names one of the nodes.
SpanMatchesNode(docPath, span) ==
    IF span.syntax = "wiki"
        THEN \E i \in 1..Len(Nodes) :
                \/ Nodes[i]["name"] = WikiTarget(span.text) \o <<".md">>
                \/ Nodes[i]["name"] = WikiTarget(span.text)
        ELSE /\ span.text[1] # "http://x"
             /\ \E i \in 1..Len(Nodes) :
                   Nodes[i]["path"] = Resolve(Dirname(docPath), span.text)

MatchingSpans(docPath) ==
    IF docPath \in fsFiles
        THEN {j \in 1..Len(fsText[docPath]) : SpanMatchesNode(docPath, fsText[docPath][j])}
        ELSE {}

LinksFrom(id) == {k \in 1..Len(Links) : Links[k].source = id}

\* C1: every link of a built graph has its source and its target among the
\* ids of the graph's nodes, and a document yields exactly one link per link
\* span that names a node: a span matching no node yields no link.
C1_LinksReferenceNodes ==
    built =>
        /\ \A k \in 1..Len(Links) :
              Links[k].source \in NodeIds /\ Links[k].target \in NodeIds
        /\ \A i \in 1..Len(Nodes) :
              Cardinality(LinksFrom(Nodes[i]["id"]))
                  = Cardinality(MatchingSpans(Nodes[i]["path"]))

\* A graph with a link, built from a document that also holds a dangling
\* wiki-link and a dangling Markdown link.
C1_Witness ==
    /\ built
    /\ Len(Links) >= 1
    /\ \E p \in fsFiles \cap NodeIds : \E j \in 1..Len(fsText[p]) :
          ~SpanMatchesNode(p, fsText[p][j]) /\ fsText[p][j].text[1] # "http://x"

\* C2: the nodes of a scan have pairwise different ids, and there is a node
\* for exactly the canonical paths of the files discovered (sidecars aside).
C2_OneNodePerCanonicalPath ==
    built =>
        /\ \A i, j \in 1..Len(Nodes) : Nodes[i]["id"] = Nodes[j]["id"] => i = j
        /\ NodeIds = {StripMarker(p) : p \in {q \in discovered : ~IsSidecarPath(q)}}

\* Two documents, one of them discovered through three of its files.
C2_Witness ==
    /\ built
    /\ Len(Nodes) = 2
    /\ {Doc1, Snapshot(Doc1, 0), Doc2} \subseteq discovered

\* C3: every entry of a node's resolvedVersions is a discovered file named
\* <node id>.resolved.<N>; the un-numbered <id>.resolved and the id itself
\* are never entries.
C3_ResolvedVersionsAreNumbered ==
    built =>
        \A i \in 1..Len(Nodes) :
            \A k \in 1..Len(Nodes[i]["resolvedVersions"]) :
                LET e == Nodes[i]["resolvedVersions"][k]
                    id == Nodes[i]["id"]
                IN  /\ e \in discovered
                    /\ \E n \in 1..Len(NumSuffix) : e = id \o <<".resolved", NumSuffix[n]>>
                    /\ e # id \o <<".resolved">>
                    /\ e # id

\* A node with a numbered snapshot whose un-numbered snapshot was discovered too.
C3_Witness ==
    /\ built
    /\ Unnumbered(Doc1) \in discovered
    /\ \E i \in 1..Len(Nodes) :
          Nodes[i]["id"] = Doc1 /\ Len(Nodes[i]["resolvedVersions"]) >= 1

NumberedSnapshotsOf(doc) ==
    {p \in discovered : \E n \in 1..Len(NumSuffix) : p = doc \o <<".resolved", NumSuffix[n]>>}

\* C5: a canonical path whose file is missing but which has a numbered
\* snapshot is a node, with exactly its numbered snapshots as resolvedVersions.
C5_HeadlessDocumentIsEmitted ==
    built =>
        \A p \in discovered :
            LET doc == StripMarker(p)
            IN  (NumberedSnapshotsOf(doc) # {} /\ doc \notin fsFiles) =>
                    \E i \in 1..Len(Nodes) :
                        /\ Nodes[i]["id"] = doc
                        /\ {Nodes[i]["resolvedVersions"][k] :
                               k \in 1..Len(Nodes[i]["resolvedVersions"])}
                             = NumberedSnapshotsOf(doc)
                        /\ Len(Nodes[i]["resolvedVersions"])
                             = Cardinality(NumberedSnapshotsOf(doc))

\* Two numbered snapshots of a document whose canonical file is gone.
C5_Witness ==
    /\ built
    /\ Doc1 \notin fsFiles
    /\ {Snapshot(Doc1, 0), Snapshot(Doc1, 1)} \subseteq discovered
    /\ Doc1 \in NodeIds

\* C6 (as claimed): every node whose canonical path has a well-formed sidecar
\* carries the parsed sidecar as its metadata, and no sidecar is a node.
C6_SidecarIsAttached ==
    built =>
        /\ \A i \in 1..Len(Nodes) :
              LET side == Nodes[i]["id"] \o <<".metadata.json">>
              IN  (side \in fsFiles /\ JsonIsWellFormed(fsText[side])) =>
                      /\ "metadata" \in DOMAIN Nodes[i]
                      /\ Nodes[i]["metadata"] = JsonParse(fsText[side])
        /\ \A i \in 1..Len(Nodes) : ~IsSidecarPath(Nodes[i]["id"])

\* The files that are documents or snapshots of documents.
DocumentFiles == {p \in fsFiles : GlobMatches(p) /\ ~IsSidecarPath(p)}

\* C7: on a missing root the scan returns no node, and on a root without
\* documents buildGraph returns {nodes: [], links: []}.
C7_EmptyRootEmptyGraph ==
    built =>
        /\ ~rootExists => Nodes = <<>>
        /\ DocumentFiles = {} => graph = [nodes |-> <<>>, links |-> <<>>]

\* buildGraph has run on a missing root.
C7_Witness == built /\ ~rootExists


(***************************************************************************)
(* Properties of _loadVersions, checked under SpecHistory.                 *)
(***************************************************************************)
\* The numbered snapshots of the shown document that existed at load time.
ShownSnapshots ==
    {p \in loadedFs : \E n \in 1..Len(NumSuffix) : p = shown["id"] \o <<".resolved", NumSuffix[n]>>}

SnapshotsStrictlyOrdered ==
    \A p, q \in ShownSnapshots : p # q => fsMtime[p] # fsMtime[q]

\* C4: for a document whose live file exists and whose existing snapshots
\* have pairwise different modification times, the version list is the
\* snapshots in ascending modification time, labelled Version 1..Version k,
\* followed by the live file labelled Current, whatever the order of
\* node.resolvedVersions and whatever the age of the live file.
C4_VersionsSortedThenCurrent ==
    (shown # <<>> /\ shown["path"] \in loadedFs /\ SnapshotsStrictlyOrdered) =>
        LET k == Cardinality(ShownSnapshots)
        IN  /\ Len(versions) = k + 1
            /\ {versions[i].id : i \in 1..k} = ShownSnapshots
            /\ \A i \in 1..k :
                  /\ versions[i].label.text = "Version"
                  /\ versions[i].label.n = i
                  /\ versions[i].timestamp = fsMtime[versions[i].id]
            /\ \A i, j \in 1..k : i < j => versions[i].timestamp < versions[j].timestamp
            /\ versions[k + 1].id = shown["path"]
            /\ versions[k + 1].label.text = "Current"

\* Two snapshots listed newest first by the scan, and a live file older than
\* the newest snapshot.
C4_Witness ==
    /\ shown # <<>>
    /\ shown["path"] \in loadedFs
    /\ SnapshotsStrictlyOrdered
    /\ Cardinality(ShownSnapshots) = 2
    /\ Len(shown["resolvedVersions"]) = 2
    /\ fsMtime[shown["resolvedVersions"][1]] > fsMtime[shown["resolvedVersions"][2]]
    /\ fsMtime[shown["path"]] < fsMtime[shown["resolvedVersions"][1]]

(***************************************************************************)
(* Properties of updateFrontmatterInContent, checked under SpecFm.         *)
(***************************************************************************)
Rewritten == fmStage # "init"

ParsedBefore == parseFrontmatterFromContent(fmPrev)

\* The merged record: updates win over the parsed frontmatter.
MergedPinned ==
    IF "pinned" \in DOMAIN fmUpd THEN fmUpd["pinned"]
    ELSE "pinned" \in DOMAIN ParsedBefore /\ ParsedBefore["pinned"]

MergedTags ==
    IF "tags" \in DOMAIN fmUpd THEN fmUpd["tags"]
    ELSE IF "tags" \in DOMAIN ParsedBefore THEN ParsedBefore["tags"]
    ELSE <<>>

HasClosedBlock(c) == c[1] \in {"---", "--- "} /\ EndIndex(c) # 0

\* The text after the closing delimiter line of a closed block.
AfterBlock(c) ==
    IF EndIndex(c) = Len(c) THEN <<"">> ELSE SubSeq(c, EndIndex(c) + 1, Len(c))

\* The body of a document: the text after its block, or all of it.
DocBody(c) == IF HasClosedBlock(c) THEN AfterBlock(c) ELSE c

\* t is s without its leading blank lines.
IsLeadingBlankTrim(t, s) ==
    /\ ~(Len(t) >= 2 /\ t[1] = "")
    /\ \E k \in 0..(Len(s) - 1) :
          /\ \A i \in 1..k : s[i] = ""
          /\ t = SubSeq(s, k + 1, Len(s))

C9_PinUnpinRoundTrip ==
    fmStage = "unpinned" =>
        /\ "pinned" \notin DOMAIN parseFrontmatterFromContent(taskMd)
        /\ "tags" \notin DOMAIN parseFrontmatterFromContent(fmBase) => taskMd = DocBody(fmBase)
        /\ DocBody(taskMd) = DocBody(fmBase)

\* C10 (as claimed): rewriting a document that has a closed block, with a
\* merged record that still has a key, leaves the text after the closing
\* delimiter line unchanged.
C10_BodyPreserved ==
    (Rewritten /\ HasClosedBlock(fmPrev) /\ (MergedPinned \/ MergedTags # <<>>)) =>
        /\ HasClosedBlock(taskMd)
        /\ AfterBlock(taskMd) = AfterBlock(fmPrev)


(***************************************************************************)
(* Properties of parseLinks, checked under Spec.                           *)
(***************************************************************************)
\* The name a wiki span asks for: its text up to the first "|", blanks aside.
AskedName(span) ==
    LET t == span.text
        cut == IF \E i \in 1..Len(t) : t[i] = "|"
                  THEN (CHOOSE i \in 1..Len(t) :
                            t[i] = "|" /\ \A j \in 1..(i - 1) : t[j] # "|") - 1
                  ELSE Len(t)
    IN  SelectSeq(SubSeq(t, 1, cut), LAMBDA x : x # " ")

\* The nodes a wiki span may mean: those named Target or Target.md.
Candidates(span) ==
    {i \in 1..Len(Nodes) :
        \/ Nodes[i]["name"] = AskedName(span)
        \/ Nodes[i]["name"] = AskedName(span) \o <<".md">>}

\* The targets of the wiki-links a document must yield, span by span, when
\* every wiki span has at most one candidate.
RECURSIVE WikiTargetsAsked(_)
WikiTargetsAsked(content) ==
    IF content = <<>> THEN <<>>
    ELSE LET span == Head(content)
             here == IF span.syntax = "wiki" /\ Candidates(span) # {}
                        THEN <<Nodes[CHOOSE i \in Candidates(span) : TRUE]["id"]>>
                        ELSE <<>>
         IN  here \o WikiTargetsAsked(Tail(content))

\* The links of one type a document has yielded, in the order of the list.
LinksOfType(id, type) ==
    SelectSeq(Links, LAMBDA l : l.source = id /\ l.type = type)

TargetsOf(ls) == [k \in 1..Len(ls) |-> ls[k].target]

\* C11: when every wiki span of a readable document has at most one candidate
\* node (a node named Target or Target.md), the document's wiki-links are, span
\* by span, the link to that candidate, whichever of the two names it has, with
\* or without an alias; a span with no candidate yields no link.
C11_WikiResolutionByEitherName ==
    built =>
        \A i \in 1..Len(Nodes) :
            LET path == Nodes[i]["path"]
            IN  (/\ path \in fsFiles
                 /\ \A j \in 1..Len(fsText[path]) :
                       fsText[path][j].syntax = "wiki"
                           => Cardinality(Candidates(fsText[path][j])) <= 1)
                    => TargetsOf(LinksOfType(Nodes[i]["id"], "wikilink"))
                         = WikiTargetsAsked(fsText[path])

\* A document that reaches the node named "notes" by [[notes]] and the node
\* named "task.md" by [[task |alias]].
C11_Witness ==
    /\ built
    /\ Doc1 \in fsFiles
    /\ fsText[Doc1] = <<WikiSpan(<<"notes">>), WikiSpan(<<"task", " ", "|", "alias">>)>>
    /\ TargetsOf(LinksOfType(Doc1, "wikilink")) = <<<<"g1", "/", "notes">>, Doc1>>

\* The ids of the nodes a link span of the document at docPath may mean.
SpanTargets(docPath, span) ==
    IF span.syntax = "wiki"
        THEN {Nodes[i]["id"] : i \in Candidates(span)}
        ELSE IF span.text[1] = "http://x" THEN {}
        ELSE {Nodes[i]["id"] : i \in {j \in 1..Len(Nodes) :
                 Nodes[j]["path"] = Resolve(Dirname(docPath), span.text)}}

\* The link spans of a document that name a node, as they occur in its text.
SpansWithTarget(docPath) ==
    IF docPath \in fsFiles
        THEN SelectSeq(fsText[docPath], LAMBDA sp : SpanTargets(docPath, sp) # {})
        ELSE <<>>

\* The same spans, the wiki spans first and the Markdown spans after them.
SpansByGrammar(docPath) ==
    SelectSeq(SpansWithTarget(docPath), LAMBDA sp : sp.syntax = "wiki")
        \o SelectSeq(SpansWithTarget(docPath), LAMBDA sp : sp.syntax = "md")

\* What the link list must look like, from node number i on: one entry per
\* span that names a node, document by document.
RECURSIVE AskedLinks(_, _)
AskedLinks(i, byGrammar) ==
    IF i > Len(Nodes) THEN <<>>
    ELSE LET path == Nodes[i]["path"]
             spans == IF byGrammar THEN SpansByGrammar(path) ELSE SpansWithTarget(path)
         IN  [k \in 1..Len(spans) |-> [node |-> i, span |-> spans[k]]]
             \o AskedLinks(i + 1, byGrammar)

LinksAgreeWith(asked) ==
    /\ Len(Links) = Len(asked)
    /\ \A k \in 1..Len(Links) :
          /\ Links[k].source = Nodes[asked[k].node]["id"]
          /\ Links[k].type = (IF asked[k].span.syntax = "wiki" THEN "wikilink" ELSE "mdlink")
          /\ Links[k].target \in SpanTargets(Nodes[asked[k].node]["path"], asked[k].span)

\* C12 (as claimed): the link list holds one link per span that names a node,
\* ordered by the position of the source document in the node list and, within
\* a document, by the occurrence of the span in the text; nothing is merged.
C12_LinksInOccurrenceOrder == built => LinksAgreeWith(AskedLinks(1, FALSE))

\* C12 (amended): as above, but within a document the wiki-links come first,
\* in the order of their occurrence, and the Markdown links after them, in the
\* order of theirs.
C12_LinksByGrammarThenOccurrence == built => LinksAgreeWith(AskedLinks(1, TRUE))

\* A document whose text holds a Markdown link and then a wiki-link to the
\* same node: two links, the wiki-link first.
C12_Witness ==
    /\ built
    /\ Doc1 \in fsFiles
    /\ fsText[Doc1] = <<MdSpan(<<"..", "/", "g2", "/", "task", ".md">>), WikiSpan(<<"task">>)>>
    /\ Links = <<Link(Doc1, Doc2, "wikilink"), Link(Doc1, Doc2, "mdlink")>>

\* C13: a node whose file cannot be read is the source of no link, and every
\* other node still yields one link per span of its text that names a node,
\* as if the unreadable file were empty.
C13_UnreadableNodeIsSkipped ==
    built =>
        \A i \in 1..Len(Nodes) :
            Nodes[i]["path"] \notin fsFiles =>
                /\ LinksFrom(Nodes[i]["id"]) = {}
                /\ \A j \in 1..Len(Nodes) :
                      Cardinality(LinksFrom(Nodes[j]["id"]))
                          = Len(SpansWithTarget(Nodes[j]["path"]))

\* A node without a readable file stands before a document that has a link.
C13_Witness ==
    /\ built
    /\ \E i, j \in 1..Len(Nodes) :
          /\ i < j
          /\ Nodes[i]["path"] \notin fsFiles
          /\ LinksFrom(Nodes[j]["id"]) # {}

(***************************************************************************)
(* Properties of SearchProvider.search and of the group display names,     *)
(* checked under SpecSearch.                                               *)
(***************************************************************************)
Results == srOut.results

\* C14: a search whose query has fewer than 2 characters returns the empty
\* list and makes no call on the file system.
C14_ShortQueryTouchesNothing ==
    (srDone /\ Len(srQuery) < 2) => (Results = <<>> /\ srOut.log = <<>>)

\* A one-character query that occurs in file names and lines of the root.
C14_Witness ==
    /\ srDone
    /\ srQuery = <<"a">>
    /\ srExists
    /\ Len(srRoot) > 1
    /\ srMax >= 1

\* The files search looks at, in scan order: group by group, the files
\* findMdFiles lists, snapshot and sidecar names aside.
RECURSIVE FilesOfDirs(_)
FilesOfDirs(dirs) ==
    IF dirs = <<>> THEN <<>>
    ELSE SelectSeq(findMdFiles(<<Head(dirs).name>>, Head(dirs).entries),
                   LAMBDA f : /\ ~Includes(f.path[Len(f.path)], DotResolved)
                              /\ ~Includes(f.path[Len(f.path)], DotMetadataJson))
         \o FilesOfDirs(Tail(dirs))

ScanOrder == IF srExists THEN FilesOfDirs(BrainDirs(srRoot)) ELSE <<>>

Matches(str) == Includes(ToLowerCase(str), ToLowerCase(srQuery))

\* The matches of one file: its name, and each line of its content.
MatchesOfFile(f) ==
    (IF Matches(f.path[Len(f.path)]) THEN 1 ELSE 0)
        + (IF f.file.readable
              THEN Cardinality({i \in 1..Len(f.file.lines) : Matches(f.file.lines[i])})
              ELSE 0)

RECURSIVE MatchTotal(_)
MatchTotal(files) ==
    IF files = <<>> THEN 0 ELSE MatchesOfFile(Head(files)) + MatchTotal(Tail(files))

\* C15: search returns at most maxResults entries, and all the matches when
\* there are no more than maxResults of them.
C15_AtMostMaxResults ==
    srDone =>
        /\ Len(Results) <= srMax
        /\ (Len(TrimTokens(srQuery)) >= 2 /\ MatchTotal(ScanOrder) <= srMax)
              => Len(Results) = MatchTotal(ScanOrder)

\* The limit is reached at a line of a file that has further matching lines
\* and is followed by further matching files.
C15_Witness ==
    /\ srDone
    /\ srMax >= 1
    /\ Len(Results) = srMax
    /\ MatchTotal(ScanOrder) > srMax + 1
    /\ Results[Len(Results)].matchType = "content"
    /\ \E f \in {ScanOrder[k] : k \in 1..Len(ScanOrder)} :
          /\ f.path = Results[Len(Results)].filePath
          /\ \E i \in 1..Len(f.file.lines) :
                i > Results[Len(Results)].lineNumber /\ Matches(f.file.lines[i])

PosOf(filePath) == CHOOSE k \in 1..Len(ScanOrder) : ScanOrder[k].path = filePath

\* C16: the results follow the scan order of their files; a file's filename
\* result (line number 0) comes before its content results, and these are in
\* ascending line number.
C16_ResultsInScanOrder ==
    srDone =>
        /\ \A k \in 1..Len(Results) :
              /\ \E n \in 1..Len(ScanOrder) : ScanOrder[n].path = Results[k].filePath
              /\ (Results[k].matchType = "filename") = (Results[k].lineNumber = 0)
              /\ Results[k].matchType \in {"filename", "content"}
        /\ \A k, l \in 1..Len(Results) :
              k < l =>
                 \/ PosOf(Results[k].filePath) < PosOf(Results[l].filePath)
                 \/ /\ Results[k].filePath = Results[l].filePath
                    /\ Results[k].lineNumber < Results[l].lineNumber

\* A filename result, a content result of the same file at line 2, and a
\* result of the next file.
C16_Witness ==
    /\ srDone
    /\ Len(Results) = 3
    /\ Results[1].matchType = "filename"
    /\ Results[2].filePath = Results[1].filePath
    /\ Results[2].lineNumber = 2
    /\ Results[3].filePath # Results[1].filePath

\* The closing delimiter of a leading frontmatter block as the codec finds
\* it: 0 when the first line is no delimiter or no later line closes it.
BlockEnd(lines) ==
    LET closing == {i \in 2..Len(lines) : TrimTokens(lines[i]) = Dashes}
    IN  IF TrimTokens(lines[1]) = Dashes /\ closing # {}
            THEN CHOOSE i \in closing : \A j \in closing : i <= j
            ELSE 0

\* The text of the first level-1 heading after the block, `fallback` without.
FirstHeading(lines, fallback) ==
    LET heads == {i \in (BlockEnd(lines) + 1)..Len(lines) :
                     StartsWith(TrimTokens(lines[i]), HashSpace)}
    IN  IF heads = {} THEN fallback
        ELSE LET first == CHOOSE i \in heads : \A j \in heads : i <= j
             IN  TrimTokens(SubSeq(TrimTokens(lines[first]), 3,
                                   Len(TrimTokens(lines[first]))))

\* The display name the group directory `name` of the root must get.
NameOfGroup(name) ==
    LET dir == srRoot[CHOOSE i \in 1..Len(srRoot) :
                        srRoot[i].kind = "dir" /\ srRoot[i].name = name]
        tasks == {i \in 1..Len(dir.entries) :
                     /\ dir.entries[i].name = TaskMdName
                     /\ dir.entries[i].kind = "file"
                     /\ dir.entries[i].readable}
    IN  IF tasks = {} THEN name
        ELSE FirstHeading(dir.entries[CHOOSE i \in tasks : TRUE].lines, name)

\* C17 (as claimed): the name of a group, in the tree and in the search
\* results, is the first level-1 heading of its task.md after the leading
\* frontmatter block, the directory name without one; a first delimiter line
\* that is never closed starts no block and hides no heading.
C17_DisplayNameIsFirstHeading ==
    /\ \A k \in 1..Len(treeNames) : treeNames[k].name = NameOfGroup(treeNames[k].id)
    /\ \A k \in 1..Len(Results) :
          Results[k].brainName = NameOfGroup(Results[k].filePath[1])

(***************************************************************************)
(* Properties of the diff view, checked under SpecDiff.                    *)
(***************************************************************************)
Answered == dfReq # <<>>

BothReadable == dfReadable.from /\ dfReadable.to

\* The rendering message of the last request, and the classes of its elements.
RenderingMsg == posted[Len(posted)]

RenderedClasses ==
    IF RenderingMsg.command = "setUnified"
        THEN {RenderingMsg.html[k].cls : k \in 1..Len(RenderingMsg.html)}
        ELSE {RenderingMsg.fromHtml[k].cls : k \in 1..Len(RenderingMsg.fromHtml)}
                 \cup {RenderingMsg.toHtml[k].cls : k \in 1..Len(RenderingMsg.toHtml)}

\* C18: a request for two readable files of equal content is answered with
\* setDiffStats added = 0, removed = 0 and a rendering whose every element is
\* unchanged: none is added, removed or a spacer.
C18_EqualContentsNoChange ==
    (Answered /\ BothReadable /\ dfFrom = dfTo) =>
        /\ Len(posted) = 2
        /\ posted[1] = [command |-> "setDiffStats", added |-> 0, removed |-> 0]
        /\ RenderedClasses \subseteq {"normal"}

\* A split rendering of a content of three lines against itself.
C18_Witness ==
    /\ Answered
    /\ BothReadable
    /\ dfFrom = dfTo
    /\ Len(dfFrom) = 3
    /\ dfReq.layout = "split"
    /\ Len(RenderingMsg.fromHtml) >= 2

\* The number of lines two contents have in common, in order.
RECURSIVE CommonCount(_, _)
CommonCount(a, b) ==
    IF a = <<>> \/ b = <<>> THEN 0
    ELSE LET fa == SubSeq(a, 1, Len(a) - 1)
             fb == SubSeq(b, 1, Len(b) - 1)
         IN  IF a[Len(a)] = b[Len(b)] THEN 1 + CommonCount(fa, fb)
             ELSE IF CommonCount(fa, b) >= CommonCount(a, fb)
                 THEN CommonCount(fa, b)
                 ELSE CommonCount(a, fb)

\* The newer content is the older one, newline-terminated, with whole lines
\* appended.
IsAppend(older, newer) ==
    /\ older[Len(older)] = ""
    /\ newer[Len(newer)] = ""
    /\ Len(newer) >= Len(older)
    /\ SubSeq(newer, 1, Len(older) - 1) = SubSeq(older, 1, Len(older) - 1)

\* C19: setDiffStats carries the numbers of lines the line diff adds and
\* removes: the lines of the newer, and of the older, content that are not among
\* the longest common subsequence; k whole lines appended to a newline-terminated
\* content give added = k, removed = 0.
C19_StatsCountChangedLines ==
    (Answered /\ BothReadable) =>
        /\ posted[1].command = "setDiffStats"
        /\ posted[1].added
             = Len(Tokens(dfTo)) - CommonCount(Tokens(dfFrom), Tokens(dfTo))
        /\ posted[1].removed
             = Len(Tokens(dfFrom)) - CommonCount(Tokens(dfFrom), Tokens(dfTo))
        /\ IsAppend(dfFrom, dfTo) =>
              /\ posted[1].added = Len(dfTo) - Len(dfFrom)
              /\ posted[1].removed = 0

\* "a\n" against "a\n# <\n": one line added, none removed.
C19_Witness ==
    /\ Answered
    /\ BothReadable
    /\ dfFrom = <<"a", "">>
    /\ dfTo = <<"a", "# <", "">>
    /\ posted[1] = [command |-> "setDiffStats", added |-> 1, removed |-> 0]

\* The rows of a pane that are no spacers.
NonSpacer(rows) == SelectSeq(rows, LAMBDA r : r.cls # "spacer")

\* The rows the lines of a content make in the given mode.
ShownLines(content) ==
    [i \in 1..Len(Tokens(content)) |-> RowText(dfReq.mode, Tokens(content)[i].text)]

TextsOf(rows) == [i \in 1..Len(rows) |-> rows[i].text]

\* C20: in a split rendering of two readable files the panes have the same
\* number of rows; row by row, a removed row faces a spacer, a spacer faces an
\* added row, and an unchanged row faces the identical row; the rows of the
\* left pane that are no spacers are the lines of the from-content, those of
\* the right pane the lines of the to-content, in order.
C20_SplitPanesAligned ==
    (Answered /\ dfReq.layout = "split") =>
        LET left == RenderingMsg.fromHtml
            right == RenderingMsg.toHtml
        IN  /\ RenderingMsg.command = "setSplit"
            /\ Len(left) = Len(right)
            /\ BothReadable =>
                  /\ \A i \in 1..Len(left) :
                        \/ left[i].cls = "removed" /\ right[i].cls = "spacer"
                        \/ left[i].cls = "spacer" /\ right[i].cls = "added"
                        \/ left[i].cls = "normal" /\ right[i] = left[i]
                  /\ TextsOf(NonSpacer(left)) = ShownLines(dfFrom)
                  /\ TextsOf(NonSpacer(right)) = ShownLines(dfTo)

\* A split rendering with a removed row, an added row and an unchanged row.
C20_Witness ==
    /\ Answered
    /\ BothReadable
    /\ dfReq.layout = "split"
    /\ {"removed", "spacer", "normal"}
          \subseteq {RenderingMsg.fromHtml[k].cls : k \in 1..Len(RenderingMsg.fromHtml)}
    /\ {"added", "spacer", "normal"}
          \subseteq {RenderingMsg.toHtml[k].cls : k \in 1..Len(RenderingMsg.toHtml)}

(***************************************************************************)
(* Properties of the step-by-step request handling, checked under         *)
(* SpecSteps.                                                              *)
(***************************************************************************)
\* The handler has returned from the last request.
Handled == dfReq # <<>> /\ dfPc = "idle"

IsRenderingMessage(m) == m.command \in {"setUnified", "setSplit"}

RenderingMessages(msgs) == SelectSeq(msgs, IsRenderingMessage)

CommandOf(layout) == IF layout = "unified" THEN "setUnified" ELSE "setSplit"

\* The number of lines an element of a unified rendering shows with class cls.
LinesShown(el, cls) ==
    IF el.cls # cls THEN 0
    ELSE IF "value" \in DOMAIN el
        THEN (IF Len(el.value) >= 2 /\ el.value[Len(el.value)] = ""
                 THEN Len(el.value) - 1 ELSE Len(el.value))
    ELSE 1

RECURSIVE SumShown(_, _)
SumShown(els, cls) ==
    IF els = <<>> THEN 0 ELSE LinesShown(Head(els), cls) + SumShown(Tail(els), cls)

ShownAdded ==
    IF RenderingMsg.command = "setUnified"
        THEN SumShown(RenderingMsg.html, "added")
        ELSE SumShown(RenderingMsg.toHtml, "added")

ShownRemoved ==
    IF RenderingMsg.command = "setUnified"
        THEN SumShown(RenderingMsg.html, "removed")
        ELSE SumShown(RenderingMsg.fromHtml, "removed")

C22_UnreadableGivesOneErrorRendering ==
    [][/\ (dfPc = "idle" /\ dfPc' = "render" /\ ~BothReadable) => posted' = <<>>
       /\ (dfPc = "render" /\ dfPc' = "idle" /\ ~BothReadable) =>
             /\ Len(posted') = Len(posted) + 1
             /\ Len(RenderingMessages(posted')) = 1
             /\ posted'[Len(posted')].command = CommandOf(dfReq.layout)
             /\ \A el \in (IF dfReq.layout = "unified"
                              THEN {posted'[Len(posted')].html}
                              ELSE {posted'[Len(posted')].fromHtml,
                                    posted'[Len(posted')].toHtml}) :
                   Len(el) = 1 /\ el[1].cls = "error"]_vars

\* A request handled while the newer file was missing.
C22_Witness ==
    /\ Handled
    /\ ~dfReadable.to
    /\ Len(posted) = 1
    /\ RenderedClasses = {"error"}

\* C23: a request of any mode and layout is answered by exactly one
\* rendering message, setUnified for the unified layout and setSplit for the
\* split layout, posted last; when both files can be read at its arrival,
\* one setDiffStats message is posted before the rendering.
C23_OneRenderingAfterStats ==
    [][/\ (dfPc = "idle" /\ dfPc' = "render") =>
             /\ RenderingMessages(posted') = <<>>
             /\ BothReadable =>
                   /\ Len(posted') = 1
                   /\ posted'[1].command = "setDiffStats"
       /\ (dfPc = "render" /\ dfPc' = "idle") =>
             /\ SubSeq(posted', 1, Len(posted)) = posted
             /\ Len(posted') = Len(posted) + 1
             /\ Len(RenderingMessages(posted')) = 1
             /\ posted'[Len(posted')].command = CommandOf(dfReq.layout)]_vars

\* A rendered split view answered after its statistics.
C23_Witness ==
    /\ Handled
    /\ dfReq = [mode |-> "rendered", layout |-> "split"]
    /\ Len(posted) = 2
    /\ posted[1].command = "setDiffStats"
    /\ posted[2].command = "setSplit"
    /\ dfFrom # dfTo

(***************************************************************************)
(* Properties of the search box, checked under SpecUi.                    *)
(***************************************************************************)
\* No timer is pending and no callback is suspended.
UiQuiescent == uiTimers = {} /\ uiAwait = <<>>

\* C24: at most one timer is pending, and it is the one set by the last
\* change of the value; a scan starts only when the value has not changed
\* for DebounceMs, and it scans that value; between two changes at most one
\* scan starts, and once nothing is pending exactly one scan has run for a
\* last value of 2 characters or more after trim.
C24_DebouncedScans ==
    /\ [](/\ Cardinality(uiTimers) <= 1
          /\ \A t \in uiTimers :
                t.id = debounceTimer /\ t.value = uiValue /\ t.age = uiQuiet
          /\ Len(uiScans) <= 1
          /\ (UiQuiescent /\ debounceTimer # 0 /\ Len(TrimTokens(uiValue)) >= 2) =>
                uiScans = <<uiValue>>)
    /\ [][(uiScans' # uiScans /\ uiScans' # <<>>) =>
             /\ uiQuiet >= DebounceMs
             /\ uiValue' = uiValue
             /\ uiScans' = <<uiValue>>]_vars

\* The value "ab" was typed after other values and scanned once.
C24_Witness ==
    /\ UiQuiescent
    /\ uiValue = <<"a", "b">>
    /\ uiScans = <<uiValue>>
    /\ uiItems # <<>>

\* What the search box shows for a value.
ItemsFor(value) ==
    IF Len(TrimTokens(value)) < 2 THEN <<>>
    ELSE ToItems(search(value, DefaultMaxResults, TRUE, UiRoot).results)

\* C25: the items are only ever replaced by the items of the value the box
\* holds at that moment, and once no timer is pending and no callback is
\* suspended the items are those of the last value: its results, or none
\* when it has fewer than 2 characters after trim.
C25_ItemsOfLatestValue ==
    /\ []((UiQuiescent /\ debounceTimer # 0) => uiItems = ItemsFor(uiValue))
    /\ [][uiItems' # uiItems => uiItems' = ItemsFor(uiValue')]_vars

\* The one result of the value "xa" is shown, and nothing is pending.
C25_Witness ==
    /\ UiQuiescent
    /\ uiValue = <<"x", "a">>
    /\ Len(uiItems) = 1
    /\ uiScans = <<uiValue>>

(***************************************************************************)
(* Parsing what updateFrontmatterInContent wrote, checked under SpecFm.    *)
(***************************************************************************)
\* The record the claim expects: pinned when the merged pinned is true, tags
\* when the merged tags are not empty.
ExpectedMeta ==
    LET withPinned == IF MergedPinned THEN Put(EmptyObj, "pinned", TRUE) ELSE EmptyObj
    IN  IF MergedTags # <<>> THEN Put(withPinned, "tags", MergedTags) ELSE withPinned

\* C26: parsing the content a rewrite produced gives the merged record:
\* pinned: true exactly when the merged pinned is true, the merged tags when
\* there are any, and no other key.
C26_ParseAfterMerge ==
    Rewritten => parseFrontmatterFromContent(taskMd) = ExpectedMeta

(***************************************************************************)
(* Names shared by several nodes, checked under Spec.                      *)
(***************************************************************************)
\* The positions of the nodes of a name, and the id of the last of them.
NodesNamed(name) == {i \in 1..Len(Nodes) : Nodes[i]["name"] = name}

LastNamed(name) == Nodes[CHOOSE i \in NodesNamed(name) : \A j \in NodesNamed(name) : j <= i]["id"]

\* The targets a document's wiki spans must yield when a shared name goes to
\* the last node that has it.
RECURSIVE WikiTargetsLast(_)
WikiTargetsLast(content) ==
    IF content = <<>> THEN <<>>
    ELSE LET span == Head(content)
             withMd == AskedName(span) \o <<".md">>
             here == IF span.syntax # "wiki" THEN <<>>
                     ELSE IF NodesNamed(withMd) # {} THEN <<LastNamed(withMd)>>
                     ELSE IF NodesNamed(AskedName(span)) # {}
                         THEN <<LastNamed(AskedName(span))>>
                     ELSE <<>>
         IN  here \o WikiTargetsLast(Tail(content))

\* C27: in one parseLinks call every wiki-link to a name goes to the last
\* node of the node list that has the name, whichever document holds the
\* link: the wiki-links of each readable document are, span by span, the
\* links to those nodes.
C27_SharedNameGoesToLastNode ==
    built =>
        \A i \in 1..Len(Nodes) :
            Nodes[i]["path"] \in fsFiles =>
                TargetsOf(LinksOfType(Nodes[i]["id"], "wikilink"))
                    = WikiTargetsLast(fsText[Nodes[i]["path"]])

\* The two task.md documents both hold [[task]], and both links go to the
\* one that comes last in the node list, here the document of group g1.
C27_Witness ==
    /\ built
    /\ Len(Nodes) = 2
    /\ Nodes[1]["id"] = Doc2
    /\ Nodes[2]["id"] = Doc1
    /\ fsText[Doc1] = <<WikiSpan(<<"task">>)>>
    /\ fsText[Doc2] = <<WikiSpan(<<"task">>)>>
    /\ TargetsOf(LinksOfType(Doc1, "wikilink")) = <<Doc1>>
    /\ TargetsOf(LinksOfType(Doc2, "wikilink")) = <<Doc1>>

(***************************************************************************)
(* Properties of the webview script: C28 under SpecNav, C29 under         *)
(* SpecWebview.                                                            *)
(***************************************************************************)
\* The 0-based positions of the two selected versions.
FromIdx == FindIndex(wvVersions, fromSelect)

ToIdx == FindIndex(wvVersions, toSelect)

LastIdx == Len(wvVersions) - 1

\* C28: with 2 versions or more the selected pair is adjacent and in range,
\* 0 <= from, to = from + 1, to <= last, after initVersions and after every
\* navigation; initVersions selects (last - 1, last); prev at from = 0 and
\* next at to = last leave the pair as it is; with fewer than 2 versions a
\* navigation changes nothing and posts nothing.
C28_AdjacentPairInRange ==
    /\ [](Len(wvVersions) >= 2 =>
             /\ 0 <= FromIdx
             /\ ToIdx = FromIdx + 1
             /\ ToIdx <= LastIdx)
    /\ [][/\ (wvEvent' = "initVersions" /\ Len(wvVersions') >= 2) =>
                /\ fromSelect' = wvVersions'[Len(wvVersions') - 1]
                /\ toSelect' = wvVersions'[Len(wvVersions')]
          /\ (wvEvent' = "prev" /\ Len(wvVersions) >= 2 /\ FromIdx = 0) =>
                UNCHANGED <<fromSelect, toSelect>>
          /\ (wvEvent' = "next" /\ Len(wvVersions) >= 2 /\ ToIdx = LastIdx) =>
                UNCHANGED <<fromSelect, toSelect>>
          /\ (wvEvent' \in Directions /\ Len(wvVersions) < 2) =>
                /\ UNCHANGED <<wvVersions, fromSelect, toSelect>>
                /\ wvSent' = <<>>]_vars

\* Three versions, and the pair at the start of the list after prev.
C28_Witness ==
    /\ Len(wvVersions) = 3
    /\ wvEvent = "prev"
    /\ FromIdx = 0
    /\ ToIdx = 1
    /\ Len(wvSent) = 1

\* C29: a change of the From or the To select posts exactly one
\* requestContent message, with the mode, the layout and the two selected
\* ids of that moment, however many initVersions messages came before.
C29_OneRequestPerChange ==
    [][wvEvent' = "change" =>
          wvSent' = <<RequestMessage(currentMode, currentLayout, fromSelect', toSelect')>>]_vars

\* A change of the From select after the second initVersions message.
C29_Witness ==
    /\ wvEvent = "change"
    /\ wvInits = 2
    /\ Len(wvVersions) = 3
    /\ FromIdx = 0
    /\ ToIdx = 2
    /\ Len(wvSent) = 1

(***************************************************************************)
(* Properties of the history panels, checked under SpecPanel.             *)
(***************************************************************************)
LivePanels == {i \in 1..Len(panels) : ~panels[i].disposed}

\* The files that are versions of a node: its snapshots and its live file.
VersionFilesOf(node) ==
    {node.path} \cup {node.resolvedVersions[k] : k \in 1..Len(node.resolvedVersions)}

\* C30: at most one panel is not disposed; currentPanel is that panel, and
\* undefined when there is none; the version list the panel holds is the
\* list of its last initVersions message, and every version in it is a file
\* of the node shown last.
C30_OnePanelOfLastNode ==
    /\ Cardinality(LivePanels) <= 1
    /\ (currentPanel = 0) <=> (LivePanels = {})
    /\ currentPanel # 0 =>
          /\ LivePanels = {currentPanel}
          /\ panels[currentPanel].initVersions = panels[currentPanel].versions
          /\ \A k \in 1..Len(panels[currentPanel].versions) :
                panels[currentPanel].versions[k].id
                    \in VersionFilesOf(panels[currentPanel].node)

\* The second panel, opened after the first was closed, shows the three
\* versions of the first document.
C30_Witness ==
    /\ Len(panels) = 2
    /\ panels[1].disposed
    /\ panels[1].node.path = Doc2
    /\ currentPanel = 2
    /\ panels[2].node.path = Doc1
    /\ Len(panels[2].versions) = 3

====
